---- MODULE Spec2Model ----
(***************************************************************************)
(* A model of the wit.ai HTTP client library (package witai).              *)
(*                                                                         *)
(* Text is a sequence of tokens (a Go string cut into pieces), so that     *)
(* fmt.Errorf and strings.Join are concatenations that can be inspected.   *)
(* A Go pointer or optional value is a sequence of length 0 (nil) or 1.    *)
(***************************************************************************)
EXTENDS Integers, Sequences, FiniteSets, TLC

\* ------------------------------------------------------------------ bounds
\* longest per-item error list of a response under test
MaxErrors == 2
\* most turns one ConverseAll invocation is followed through
MaxTurns == 3
\* most intents passed to one CreateIntent_deprecated call
MaxIntents == 2
\* most invocations after which the client is called again
MaxCalls == 1
\* the calls made with the same arguments
MaxBuilds == 2
\* the entries of a params map handed to makeUrl on its own
MaxParams == 2
\* the items of a list of values or of expressions
MaxValues == 1

\* --------------------------------------------------------- optional values
None == <<>>
Some(v) == <<v>>
IsNil(p) == p = <<>>
Deref(p) == p[1]

\* The sequences over S of length at most n.
SeqUpTo(S, n) == UNION {[1..k -> S] : k \in 0..n}

\* ------------------------------------------------------------ ResponseError
\* The texts a response may carry in its error fields.
ErrorTexts == {<<>>, <<"e">>}
ItemTexts == {<<"x">>, <<"y">>}

\* A ResponseError value: Error and Code (types.go), and the Errors and Body
\* fields read by HasError and ErrorMessage.
ResponseErrors ==
    [Error : {None} \cup {Some(t) : t \in ErrorTexts},
     Code : {None, Some(<<"c">>)},
     Errors : SeqUpTo(ItemTexts, MaxErrors),
     Body : {None, Some(<<"b">>)}]

\* strings.Join(elems, sep)
RECURSIVE Join(_, _)
Join(elems, sep) ==
    IF Len(elems) = 0 THEN <<>>
    ELSE IF Len(elems) = 1 THEN elems[1]
    ELSE elems[1] \o sep \o Join(Tail(elems), sep)

HasError_IgnoresBody(r) ==
    IF ~IsNil(r.Error) \/ Len(r.Errors) > 0 THEN TRUE ELSE FALSE

HasError_ChecksCode(r) ==
    IF ~IsNil(r.Error) \/ ~IsNil(r.Code) \/ Len(r.Errors) > 0 \/ ~IsNil(r.Body)
    THEN TRUE ELSE FALSE

\* func (r ResponseError) HasError() bool
HasError(r) ==
    IF ~IsNil(r.Error) \/ Len(r.Errors) > 0 \/ ~IsNil(r.Body) THEN TRUE ELSE FALSE

ErrorMessage_IncludesCode(r) ==
    LET errors0 == r.Errors
        errors1 == IF ~IsNil(r.Error) THEN Append(errors0, Deref(r.Error)) ELSE errors0
        errors2 == IF ~IsNil(r.Code) THEN Append(errors1, Deref(r.Code)) ELSE errors1
        errors3 == IF ~IsNil(r.Body) THEN Append(errors2, Deref(r.Body)) ELSE errors2
    IN  Join(errors3, <<",">>)

ErrorMessage_BodyBeforeError(r) ==
    LET errors0 == r.Errors
        errors1 == IF ~IsNil(r.Body) THEN Append(errors0, Deref(r.Body)) ELSE errors0
        errors2 == IF ~IsNil(r.Error) THEN Append(errors1, Deref(r.Error)) ELSE errors1
    IN  Join(errors2, <<",">>)

\* func (r ResponseError) ErrorMessage() string
ErrorMessage(r) ==
    LET errors0 == r.Errors
        errors1 == IF ~IsNil(r.Error) THEN Append(errors0, Deref(r.Error)) ELSE errors0
        errors2 == IF ~IsNil(r.Body) THEN Append(errors1, Deref(r.Body)) ELSE errors1
    IN  Join(errors2, <<",">>)

\* ------------------------------------------------------- transport replies
\* A JSON object of a response body.  A key that is absent is None; the
\* "errors" array is empty when the key is absent.  "type" is the turn type
\* of a converse response and "payload" stands for the success fields of the
\* operation (outcomes, msg, id, values, ...).
TurnTypes == {<<"msg">>, <<"action">>, <<"stop">>}

JsonObjects ==
    [error : {None, Some(<<"e">>)},
     code : {None, Some(<<"c">>)},
     errors : {<<>>, <<(<<"x">>)>>},
     body : {None, Some(<<"b">>)},
     type : {None} \cup {Some(t) : t \in TurnTypes},
     payload : {None, Some(<<"p">>)}]

EmptyObject ==
    [error |-> None, code |-> None, errors |-> <<>>, body |-> None,
     type |-> None, payload |-> None]

\* What the transport hands back for one request: a transport failure
\* (client.Do returns an error), bytes that are not JSON, a JSON object, or a
\* JSON array of strings or of objects.
\* A reply that is not a transport failure also has the status code of the
\* response and tells whether ioutil.ReadAll reported an error; kind, obj and
\* items describe the bytes ReadAll returned.
NetErr ==
    [kind |-> "neterr", obj |-> EmptyObject, items |-> <<>>, status |-> 0,
     readErr |-> FALSE]
Invalid ==
    [kind |-> "invalid", obj |-> EmptyObject, items |-> <<>>, status |-> 200,
     readErr |-> FALSE]
ObjectReply(o) ==
    [kind |-> "object", obj |-> o, items |-> <<>>, status |-> 200, readErr |-> FALSE]
ArrayReply(k, xs) ==
    [kind |-> k, obj |-> EmptyObject, items |-> xs, status |-> 200, readErr |-> FALSE]
StatusReply(r, status, readErr) == [r EXCEPT !.status = status, !.readErr = readErr]

Replies ==
    {NetErr, Invalid}
    \cup {ObjectReply(o) : o \in JsonObjects}
    \cup {ArrayReply(k, xs) : k \in {"strings", "objects"}, xs \in {<<>>, <<(<<"s">>)>>}}

\* The causes the standard library reports.
NetCause == <<"connection refused">>
SyntaxCause == <<"invalid character">>
TypeCause == <<"cannot unmarshal">>
FileCause == <<"no such file or directory">>

\* ------------------------------------------------------------ result types
\* The response types that embed ResponseError, those of the older clients
\* (ResponseError with Error and Code only), and the untyped ones.
StructTargets ==
    {"Message", "Converse", "Entity", "Intents", "IntentDetail", "IntentAttributes"}
LegacyTargets == {"ResponseConverse", "ResponseMessage", "ResponseIntents"}
MapTargets == {"map[string]string"}
StringListTargets == {"[]string"}
ObjectListTargets == {"[]Intent", "[]IntentExpressionCreated"}

ZeroStruct ==
    [t |-> "struct", Error |-> None, Code |-> None, Errors |-> <<>>, Body |-> None,
     Type |-> None, Payload |-> None]
NilMap == [t |-> "map", isNil |-> TRUE, m |-> EmptyObject]
NilList == [t |-> "list", isNil |-> TRUE, items |-> <<>>]

\* The zero value of a result type (var response T).
Zero(target) ==
    IF target \in StructTargets \cup LegacyTargets THEN ZeroStruct
    ELSE IF target \in MapTargets THEN NilMap
    ELSE NilList

\* json.Unmarshal(bytes, &v) for v of type target.
Unmarshal(target, rep) ==
    IF rep.kind = "invalid"
    THEN [ok |-> FALSE, val |-> Zero(target), cause |-> SyntaxCause]
    ELSE IF target \in StructTargets
    THEN IF rep.kind = "object"
         THEN [ok |-> TRUE,
               val |-> [t |-> "struct",
                        Error |-> rep.obj.error,
                        Code |-> rep.obj.code,
                        Errors |-> rep.obj.errors,
                        Body |-> rep.obj.body,
                        Type |-> IF target = "Converse" THEN rep.obj.type ELSE None,
                        Payload |-> rep.obj.payload],
               cause |-> <<>>]
         ELSE [ok |-> FALSE, val |-> Zero(target), cause |-> TypeCause]
    ELSE IF target \in LegacyTargets
    THEN IF rep.kind = "object"
         THEN [ok |-> TRUE,
               val |-> [t |-> "struct",
                        Error |-> rep.obj.error,
                        Code |-> rep.obj.code,
                        Errors |-> <<>>,
                        Body |-> None,
                        Type |-> IF target = "ResponseConverse" THEN rep.obj.type ELSE None,
                        Payload |-> rep.obj.payload],
               cause |-> <<>>]
         ELSE [ok |-> FALSE, val |-> Zero(target), cause |-> TypeCause]
    ELSE IF target \in MapTargets
    THEN IF rep.kind = "object" /\ rep.obj.errors = <<>>
         THEN [ok |-> TRUE, val |-> [t |-> "map", isNil |-> FALSE, m |-> rep.obj],
               cause |-> <<>>]
         ELSE [ok |-> FALSE, val |-> Zero(target), cause |-> TypeCause]
    ELSE IF \/ rep.kind = "strings" /\ target \in StringListTargets
            \/ rep.kind = "objects" /\ target \in ObjectListTargets
            \/ rep.kind \in {"strings", "objects"} /\ rep.items = <<>>
    THEN [ok |-> TRUE, val |-> [t |-> "list", isNil |-> FALSE, items |-> rep.items],
          cause |-> <<>>]
    ELSE [ok |-> FALSE, val |-> Zero(target), cause |-> TypeCause]

\* fmt.Errorf("<name> <phase> error: %s", cause)
Errorf(name, phase, cause) == <<name, phase, "error:">> \o cause

\* ------------------------------------------------------------------- state
VARIABLES
    pc,           \* "idle", "converseAll" (inside the loop of ConverseAll), "done", "panic"
    op,           \* the operation that was called
    sent,         \* the HTTP requests this invocation issued, in order
    received,     \* the replies the transport gave to them, in order
    responses,    \* the local slice of ConverseAll
    response,     \* the returned value
    err,          \* the returned error: None, or Some(text)
    rerr,         \* a ResponseError whose helper methods are called
    hasError,     \* the value HasError returned for rerr, once called
    errorMessage, \* the text ErrorMessage returned for rerr, once called
    calls,        \* the number of invocations the caller has taken the result of
    fileRead,     \* what ioutil.ReadFile gave this invocation: None when it was not
                  \* called, else Some of [ok, data]
    bop,          \* the operation whose request is being built
    bargs,        \* the arguments it was called with
    bparams,      \* the params it handed to makeUrl
    breqs,        \* the requests built by the calls made with these arguments
    wire,         \* the JSON bodies handed to json.Unmarshal
    decoded,      \* the values they were decoded into
    client,       \* the Client the operations are called on
    procs         \* the goroutines that call operations on the client at the same
                  \* time, each with the locals of its call

vars == <<pc, op, sent, received, responses, response, err, rerr, hasError, errorMessage,
          calls, fileRead, bop, bargs, bparams, breqs, wire, decoded, client,
          procs>>
codecVars == <<bop, bargs, bparams, breqs, wire, decoded>>
helperVars == <<rerr, hasError, errorMessage, calls, codecVars, client, procs>>
clientVars == <<pc, op, sent, received, responses, response, err, fileRead>>

ZeroResponseError == [Error |-> None, Code |-> None, Errors |-> <<>>, Body |-> None]

\* ------------------------------------------------------------------ client
DefaultVersion == <<"20160516">>

\* func NewClientWithVersion(token, version string) *Client
NewClientWithVersion(token, version) ==
    [Token |-> Some(token),
     Version |-> Some(version),
     headerAuth |-> Some(<<"Bearer", " ">> \o token),
     headerAccept |-> Some(<<"application/vnd.wit.">> \o version \o <<"+json">>)]

\* func NewClient(token string) *Client
NewClient(token) == NewClientWithVersion(token, DefaultVersion)

\* The tokens and versions clients are built with.
Tokens == {<<"tok">>}
Versions == {<<"20141022">>}
DefaultClients == {NewClient(t) : t \in Tokens}
Clients == DefaultClients \cup {NewClientWithVersion(t, v) : t \in Tokens, v \in Versions}

\* ------------------------------------------------------------ HTTP requests
\* The request built by Client.request: the headers of the client and the
\* JSON content type.
request_DefaultAccept(method, url, body) ==
    [method |-> method, url |-> url, authorization |-> Deref(client.headerAuth),
     accept |-> <<"application/vnd.wit.">> \o DefaultVersion \o <<"+json">>,
     contentType |-> "application/json", body |-> body]

request(method, url, body) ==
    [method |-> method, url |-> url, authorization |-> Deref(client.headerAuth),
     accept |-> Deref(client.headerAccept), contentType |-> "application/json",
     body |-> body]

\* The request built by Client.upload once the file has been read.
upload_AsJson(method, url, data, contentType) ==
    [method |-> method, url |-> url, authorization |-> Deref(client.headerAuth),
     accept |-> Deref(client.headerAccept), contentType |-> "application/json",
     body |-> data]

upload(method, url, data, contentType) ==
    [method |-> method, url |-> url, authorization |-> Deref(client.headerAuth),
     accept |-> Deref(client.headerAccept), contentType |-> contentType, body |-> data]

\* ------------------------------------------------------- the call patterns
\* The body shared by the operations whose result embeds ResponseError:
\* request, json.Unmarshal, HasError, and one labelled error per phase.
CheckedCall_LeaksPayload(name, target, rep) ==
    IF rep.kind = "neterr"
    THEN [response |-> Zero(target), err |-> Some(Errorf(name, "request", NetCause))]
    ELSE LET dec == Unmarshal(target, rep) IN
         IF dec.ok
         THEN IF ~HasError(dec.val)
              THEN [response |-> dec.val, err |-> None]
              ELSE [response |-> dec.val,
                    err |-> Some(Errorf(name, "response", ErrorMessage(dec.val)))]
         ELSE [response |-> Zero(target), err |-> Some(Errorf(name, "parse", dec.cause))]

CheckedCall(name, target, rep) ==
    IF rep.kind = "neterr"
    THEN [response |-> Zero(target), err |-> Some(Errorf(name, "request", NetCause))]
    ELSE LET dec == Unmarshal(target, rep) IN
         IF dec.ok
         THEN IF ~HasError(dec.val)
              THEN [response |-> dec.val, err |-> None]
              ELSE [response |-> Zero(target),
                    err |-> Some(Errorf(name, "response", ErrorMessage(dec.val)))]
         ELSE [response |-> Zero(target), err |-> Some(Errorf(name, "parse", dec.cause))]

\* The body of the operations that return a map or a list: no HasError.
UncheckedCall(name, target, rep) ==
    IF rep.kind = "neterr"
    THEN [response |-> Zero(target), err |-> Some(Errorf(name, "request", NetCause))]
    ELSE LET dec == Unmarshal(target, rep) IN
         IF dec.ok
         THEN [response |-> dec.val, err |-> None]
         ELSE [response |-> Zero(target), err |-> Some(Errorf(name, "parse", dec.cause))]

\* The body of the operations of the older clients (both older copies of the
\* client have the same bodies): the transport error is returned as it is,
\* and a response with an error is labelled "request".
LegacyCall(name, target, rep) ==
    IF rep.kind = "neterr"
    THEN [response |-> Zero(target), err |-> Some(NetCause)]
    ELSE LET dec == Unmarshal(target, rep) IN
         IF dec.ok
         THEN IF IsNil(dec.val.Error)
              THEN [response |-> dec.val, err |-> None]
              ELSE [response |-> Zero(target),
                    err |-> Some(Errorf(name, "request", Deref(dec.val.Error)))]
         ELSE [response |-> Zero(target), err |-> Some(Errorf(name, "parse", dec.cause))]

\* An invocation that issued the requests reqs, got the replies reps and
\* returned out.
Returns(o, reqs, reps, out) ==
    /\ pc' = "done"
    /\ op' = o
    /\ sent' = reqs
    /\ received' = reps
    /\ response' = out.response
    /\ err' = out.err
    /\ UNCHANGED <<responses, fileRead, helperVars>>

\* The same for an invocation that called ioutil.ReadFile, with the result fr.
ReturnsAfterRead(o, fr, reqs, reps, out) ==
    /\ pc' = "done"
    /\ op' = o
    /\ fileRead' = Some(fr)
    /\ sent' = reqs
    /\ received' = reps
    /\ response' = out.response
    /\ err' = out.err
    /\ UNCHANGED <<responses, helperVars>>

\* An invocation that faulted (a Go panic) after the requests reqs.
Panics(o, reqs, reps) ==
    /\ pc' = "panic"
    /\ op' = o
    /\ sent' = reqs
    /\ received' = reps
    /\ UNCHANGED <<response, err, responses, fileRead, helperVars>>

\* The files an upload is given: one that cannot be read, and readable ones.
ReadFile ==
    {[ok |-> FALSE, data |-> <<>>],
     [ok |-> TRUE, data |-> <<"ID3">>],
     [ok |-> TRUE, data |-> <<"ID3", "frame">>]}

Host == "https://api.wit.ai"

\* The type an operation decodes its response into (var xxxRes T).
OpTarget(o) ==
    CASE o = "QueryMessage" -> "Message"
      [] o = "ConverseFirst" -> "Converse"
      [] o = "ConverseNext" -> "Converse"
      [] o = "GetAllEntities" -> "[]string"
      [] o = "CreateEntity" -> "Entity"
      [] o = "ShowEntity" -> "Entity"
      [] o = "UpdateEntity" -> "Entity"
      [] o = "DeleteEntity" -> "map[string]string"
      [] o = "CreateEntityValue" -> "Entity"
      [] o = "DeleteEntityValue" -> "map[string]string"
      [] o = "CreateEntityExpression" -> "Entity"
      [] o = "DeleteEntityExpression" -> "map[string]string"
      [] o = "GetAllIntents_deprecated" -> "[]Intent"
      [] o = "ShowIntent_deprecated" -> "IntentDetail"
      [] o = "UpdateIntentAttrs_deprecated" -> "IntentAttributes"
      [] o = "CreateIntentExpressions_deprecated" -> "[]IntentExpressionCreated"
      [] o = "DeleteIntentExpression_deprecated" -> "map[string]string"
      [] o = "GetMessage_deprecated" -> "Message"
      [] o = "Legacy_Converse" -> "ResponseConverse"
      [] o = "Legacy_ConverseNext" -> "ResponseConverse"
      [] o = "Legacy_Message" -> "ResponseMessage"
      [] o = "QuerySpeechMp3" -> "Message"
      [] o = "Legacy_SpeechMp3" -> "ResponseMessage"
      [] o = "CreateIntent_deprecated" -> "Intents"
      [] o = "Legacy_CreateNewIntent" -> "ResponseIntents"
      [] o = "ConverseAll" -> "Converse"

\* --------------------------------------------------- endpoint operations
\* Every operation is synchronous: it issues its request, takes the reply
\* rep of the transport, decodes it and returns.  The url of a request is the
\* base URL the operation hands to makeUrl, and its body names the value the
\* operation hands to json.Marshal; the query string and the JSON text are
\* built in SpecCodec.

QueryMessage_RetriesOnError(rep) ==
    /\ pc = "idle"
    /\ LET req == request("GET", <<Host, "/message">>, <<"context">>)
           out == CheckedCall("message", OpTarget("QueryMessage"), rep)
       IN Returns("QueryMessage", IF out.err = None THEN <<req>> ELSE <<req, req>>, <<rep>>, out)

QueryMessage(rep) ==
    /\ pc = "idle"
    /\ Returns("QueryMessage", <<request("GET", <<Host, "/message">>, <<"context">>)>>, <<rep>>,
               CheckedCall("message", OpTarget("QueryMessage"), rep))

ConverseFirst_ChecksStatus(rep) ==
    /\ pc = "idle"
    /\ Returns("ConverseFirst", <<request("POST", <<Host, "/converse">>, <<"context">>)>>, <<rep>>,
               IF rep.status >= 400
               THEN [response |-> Zero(OpTarget("ConverseFirst")),
                     err |-> Some(Errorf("converse", "request", <<"status">>))]
               ELSE CheckedCall("converse", OpTarget("ConverseFirst"), rep))

ConverseFirst(rep) ==
    /\ pc = "idle"
    /\ Returns("ConverseFirst", <<request("POST", <<Host, "/converse">>, <<"context">>)>>, <<rep>>,
               CheckedCall("converse", OpTarget("ConverseFirst"), rep))

ConverseNext(rep) ==
    /\ pc = "idle"
    /\ Returns("ConverseNext", <<request("POST", <<Host, "/converse">>, <<"context">>)>>, <<rep>>,
               CheckedCall("converse", OpTarget("ConverseNext"), rep))

GetAllEntities(rep) ==
    /\ pc = "idle"
    /\ Returns("GetAllEntities", <<request("GET", <<Host, "/entities">>, <<"null">>)>>, <<rep>>,
               UncheckedCall("get all entities", OpTarget("GetAllEntities"), rep))

CreateEntity(rep) ==
    /\ pc = "idle"
    /\ Returns("CreateEntity", <<request("POST", <<Host, "/entities">>, <<"data">>)>>, <<rep>>,
               CheckedCall("new entity", OpTarget("CreateEntity"), rep))

ShowEntity(rep) ==
    /\ pc = "idle"
    /\ Returns("ShowEntity", <<request("GET", <<Host, "/entities/", "id">>, <<"null">>)>>, <<rep>>,
               CheckedCall("show entity", OpTarget("ShowEntity"), rep))

UpdateEntity(rep) ==
    /\ pc = "idle"
    /\ Returns("UpdateEntity", <<request("PUT", <<Host, "/entities/", "id">>, <<"body">>)>>, <<rep>>,
               CheckedCall("update entity", OpTarget("UpdateEntity"), rep))

DeleteEntity(rep) ==
    /\ pc = "idle"
    /\ Returns("DeleteEntity", <<request("DELETE", <<Host, "/entities/", "id">>, <<"null">>)>>, <<rep>>,
               UncheckedCall("delete entity", OpTarget("DeleteEntity"), rep))

CreateEntityValue(rep) ==
    /\ pc = "idle"
    /\ Returns("CreateEntityValue", <<request("POST", <<Host, "/entities/", "id", "/values">>, <<"body">>)>>, <<rep>>,
               CheckedCall("create entity value", OpTarget("CreateEntityValue"), rep))

DeleteEntityValue(rep) ==
    /\ pc = "idle"
    /\ Returns("DeleteEntityValue", <<request("DELETE", <<Host, "/entities/", "id", "/values/", "value">>, <<"null">>)>>, <<rep>>,
               UncheckedCall("delete entity value", OpTarget("DeleteEntityValue"), rep))

CreateEntityExpression(rep) ==
    /\ pc = "idle"
    /\ Returns("CreateEntityExpression", <<request("POST", <<Host, "/entities/", "id", "/values/", "value", "/expressions">>, <<"body">>)>>, <<rep>>,
               CheckedCall("create entity expression", OpTarget("CreateEntityExpression"), rep))

DeleteEntityExpression(rep) ==
    /\ pc = "idle"
    /\ Returns("DeleteEntityExpression", <<request("DELETE", <<Host, "/entities/", "id", "/values/", "value", "/expressions/", "expr">>, <<"null">>)>>, <<rep>>,
               UncheckedCall("delete entity expression", OpTarget("DeleteEntityExpression"), rep))

GetAllIntents_deprecated(rep) ==
    /\ pc = "idle"
    /\ Returns("GetAllIntents_deprecated", <<request("GET", <<Host, "/intents">>, <<"null">>)>>, <<rep>>,
               UncheckedCall("intent list", OpTarget("GetAllIntents_deprecated"), rep))

ShowIntent_deprecated(rep) ==
    /\ pc = "idle"
    /\ Returns("ShowIntent_deprecated", <<request("GET", <<Host, "/intents/", "id">>, <<"null">>)>>, <<rep>>,
               CheckedCall("show intent", OpTarget("ShowIntent_deprecated"), rep))

UpdateIntentAttrs_deprecated(rep) ==
    /\ pc = "idle"
    /\ Returns("UpdateIntentAttrs_deprecated", <<request("PUT", <<Host, "/intents/", "id">>, <<"body">>)>>, <<rep>>,
               CheckedCall("update intent attrs", OpTarget("UpdateIntentAttrs_deprecated"), rep))

CreateIntentExpressions_deprecated(rep) ==
    /\ pc = "idle"
    /\ Returns("CreateIntentExpressions_deprecated", <<request("POST", <<Host, "/intents/", "id", "/expressions">>, <<"body">>)>>, <<rep>>,
               UncheckedCall("create intent expressions", OpTarget("CreateIntentExpressions_deprecated"), rep))

DeleteIntentExpression_deprecated(rep) ==
    /\ pc = "idle"
    /\ Returns("DeleteIntentExpression_deprecated", <<request("DELETE", <<Host, "/intents/", "id", "/expressions/", "expr">>, <<"null">>)>>, <<rep>>,
               UncheckedCall("delete expression", OpTarget("DeleteIntentExpression_deprecated"), rep))

GetMessage_deprecated(rep) ==
    /\ pc = "idle"
    /\ Returns("GetMessage_deprecated", <<request("GET", <<Host, "/messages/", "id">>, <<"null">>)>>, <<rep>>,
               CheckedCall("get message", OpTarget("GetMessage_deprecated"), rep))

Legacy_Converse(rep) ==
    /\ pc = "idle"
    /\ Returns("Legacy_Converse", <<request("POST", <<Host, "/converse">>, <<"context">>)>>, <<rep>>,
               LegacyCall("converse", OpTarget("Legacy_Converse"), rep))

Legacy_ConverseNext(rep) ==
    /\ pc = "idle"
    /\ Returns("Legacy_ConverseNext", <<request("POST", <<Host, "/converse">>, <<"context">>)>>, <<rep>>,
               LegacyCall("converse", OpTarget("Legacy_ConverseNext"), rep))

Legacy_Message(rep) ==
    /\ pc = "idle"
    /\ Returns("Legacy_Message", <<request("GET", <<Host, "/message">>, <<"context">>)>>, <<rep>>,
               LegacyCall("message", OpTarget("Legacy_Message"), rep))

\* QuerySpeechMp3 hands the file to upload, which reads it first (file is
\* what ioutil.ReadFile gives) and issues the request only when the read
\* succeeded; the read error comes back from upload like a transport error.
QuerySpeechMp3_SendsUnreadFile(file, rep) ==
    /\ pc = "idle"
    /\ ReturnsAfterRead("QuerySpeechMp3", file,
                        <<upload("POST", <<Host, "/speech">>, file.data, "audio/mpeg3")>>,
                        <<rep>>, CheckedCall("speech", OpTarget("QuerySpeechMp3"), rep))

QuerySpeechMp3(file, rep) ==
    /\ pc = "idle"
    /\ IF file.ok
       THEN ReturnsAfterRead("QuerySpeechMp3", file,
                             <<upload("POST", <<Host, "/speech">>, file.data, "audio/mpeg3")>>,
                             <<rep>>, CheckedCall("speech", OpTarget("QuerySpeechMp3"), rep))
       ELSE ReturnsAfterRead("QuerySpeechMp3", file, <<>>, <<>>,
                             [response |-> Zero(OpTarget("QuerySpeechMp3")),
                              err |-> Some(Errorf("speech", "request", FileCause))])

Legacy_SpeechMp3(file, rep) ==
    /\ pc = "idle"
    /\ IF file.ok
       THEN ReturnsAfterRead("Legacy_SpeechMp3", file,
                             <<upload("POST", <<Host, "/speech">>, file.data, "audio/mpeg3")>>,
                             <<rep>>, LegacyCall("speech", OpTarget("Legacy_SpeechMp3"), rep))
       ELSE ReturnsAfterRead("Legacy_SpeechMp3", file, <<>>, <<>>,
                             [response |-> Zero(OpTarget("Legacy_SpeechMp3")),
                              err |-> Some(FileCause)])

\* CreateIntent_deprecated(intents ...Intent) with n intents: the body is the
\* slice when n > 1 and intents[0] otherwise, an index out of range for n = 0.
CreateIntent_deprecated(n, rep) ==
    /\ pc = "idle"
    /\ IF n > 1
       THEN Returns("CreateIntent_deprecated",
                    <<request("POST", <<Host, "/intents">>, <<"intents">>)>>,
                    <<rep>>, CheckedCall("new intents", OpTarget("CreateIntent_deprecated"), rep))
       ELSE IF 0 < n
       THEN Returns("CreateIntent_deprecated",
                    <<request("POST", <<Host, "/intents">>, <<"intents[0]">>)>>,
                    <<rep>>, CheckedCall("new intents", OpTarget("CreateIntent_deprecated"), rep))
       ELSE Panics("CreateIntent_deprecated", <<>>, <<>>)

Legacy_CreateNewIntent(n, rep) ==
    /\ pc = "idle"
    /\ IF n > 1
       THEN Returns("Legacy_CreateNewIntent",
                    <<request("POST", <<Host, "/intents">>, <<"intents">>)>>,
                    <<rep>>, LegacyCall("new intents", OpTarget("Legacy_CreateNewIntent"), rep))
       ELSE IF 0 < n
       THEN Returns("Legacy_CreateNewIntent",
                    <<request("POST", <<Host, "/intents">>, <<"intents[0]">>)>>,
                    <<rep>>, LegacyCall("new intents", OpTarget("Legacy_CreateNewIntent"), rep))
       ELSE Panics("Legacy_CreateNewIntent", <<>>, <<>>)

\* ---------------------------------------------------------------- ConverseAll
ConverseRequest == request("POST", <<Host, "/converse">>, <<"context">>)

\* The value ConverseAll returns: its slice, or nil with the error.
Turns(rs) == [t |-> "list", isNil |-> FALSE, items |-> rs]

\* ConverseAll up to the first iteration of its loop: ConverseFirst, and on
\* success the first ConverseNext request, whatever the type of the turn.
ConverseAll(rep) ==
    /\ pc = "idle"
    /\ LET first == CheckedCall("converse", OpTarget("ConverseAll"), rep) IN
       IF IsNil(first.err)
       THEN /\ pc' = "converseAll"
            /\ op' = "ConverseAll"
            /\ responses' = <<first.response>>
            /\ sent' = <<ConverseRequest, ConverseRequest>>
            /\ received' = <<rep>>
            /\ UNCHANGED <<response, err, fileRead, helperVars>>
       ELSE /\ Returns("ConverseAll", <<ConverseRequest>>, <<rep>>,
                       [response |-> NilList, err |-> first.err])

\* One iteration of the loop of ConverseAll: the reply of the pending
\* ConverseNext is appended, *result.Type is read (a nil dereference when the
\* turn has no type) and the loop goes on unless the type is "stop".
ConverseAllLoop_KeepsTurns(rep) ==
    /\ pc = "converseAll"
    /\ LET next == CheckedCall("converse", OpTarget("ConverseAll"), rep) IN
       IF IsNil(next.err)
       THEN IF IsNil(next.response.Type)
            THEN /\ pc' = "panic"
                 /\ responses' = Append(responses, next.response)
                 /\ received' = Append(received, rep)
                 /\ UNCHANGED <<op, sent, response, err, fileRead, helperVars>>
            ELSE IF Deref(next.response.Type) # <<"stop">>
            THEN /\ Len(responses) + 1 < MaxTurns
                 /\ pc' = "converseAll"
                 /\ responses' = Append(responses, next.response)
                 /\ received' = Append(received, rep)
                 /\ sent' = Append(sent, ConverseRequest)
                 /\ UNCHANGED <<op, response, err, fileRead, helperVars>>
            ELSE /\ pc' = "done"
                 /\ responses' = Append(responses, next.response)
                 /\ received' = Append(received, rep)
                 /\ response' = Turns(responses')
                 /\ err' = None
                 /\ UNCHANGED <<op, sent, fileRead, helperVars>>
       ELSE /\ pc' = "done"
            /\ received' = Append(received, rep)
            /\ response' = Turns(responses)
            /\ err' = next.err
            /\ UNCHANGED <<op, sent, responses, fileRead, helperVars>>

ConverseAllLoop(rep) ==
    /\ pc = "converseAll"
    /\ LET next == CheckedCall("converse", OpTarget("ConverseAll"), rep) IN
       IF IsNil(next.err)
       THEN IF IsNil(next.response.Type)
            THEN /\ pc' = "panic"
                 /\ responses' = Append(responses, next.response)
                 /\ received' = Append(received, rep)
                 /\ UNCHANGED <<op, sent, response, err, fileRead, helperVars>>
            ELSE IF Deref(next.response.Type) # <<"stop">>
            THEN /\ Len(responses) + 1 < MaxTurns
                 /\ pc' = "converseAll"
                 /\ responses' = Append(responses, next.response)
                 /\ received' = Append(received, rep)
                 /\ sent' = Append(sent, ConverseRequest)
                 /\ UNCHANGED <<op, response, err, fileRead, helperVars>>
            ELSE /\ pc' = "done"
                 /\ responses' = Append(responses, next.response)
                 /\ received' = Append(received, rep)
                 /\ response' = Turns(responses')
                 /\ err' = None
                 /\ UNCHANGED <<op, sent, fileRead, helperVars>>
       ELSE /\ pc' = "done"
            /\ received' = Append(received, rep)
            /\ response' = NilList
            /\ err' = next.err
            /\ UNCHANGED <<op, sent, responses, fileRead, helperVars>>

\* The caller takes the result and the client is ready for the next call.
Return ==
    /\ pc = "done"
    /\ calls < MaxCalls
    /\ calls' = calls + 1
    /\ pc' = "idle"
    /\ op' = "none"
    /\ sent' = <<>>
    /\ received' = <<>>
    /\ responses' = <<>>
    /\ response' = ZeroStruct
    /\ err' = None
    /\ fileRead' = None
    /\ UNCHANGED <<rerr, hasError, errorMessage, codecVars, client, procs>>

\* Nothing is being built or decoded.
CodecIdle ==
    /\ bop = "none"
    /\ bargs = <<>>
    /\ bparams = <<>>
    /\ breqs = <<>>
    /\ wire = <<>>
    /\ decoded = <<>>

\* -------------------------------------------------------- building requests
\* The values the client puts into maps and bodies.  A nil slice and an empty
\* one differ in Go, so a slice is Some of its items or None.
NilValue == [kind |-> "nil"]
StringValue(s) == [kind |-> "string", s |-> s]
IntValue(n) == [kind |-> "int", n |-> n]
StringsValue(xs) == [kind |-> "[]string", items |-> xs]
EntityValuesValue(vs) == [kind |-> "[]EntityValue", items |-> vs]
MapValue(m) == [kind |-> "map", m |-> m]

\* A map with no entry, and the map of the entries of m and then of those of n.
EmptyMap == <<>>
Entry(k, v) == k :> v
EntryIf(cond, k, v) == IF cond THEN k :> v ELSE EmptyMap

\* strconv of an integer, as fmt's %v prints it.
Digit(d) == <<"0", "1", "2", "3", "4", "5", "6", "7", "8", "9">>[d + 1]

RECURSIVE Itoa(_)
Itoa(n) ==
    IF n < 0 THEN <<"-">> \o Itoa(0 - n)
    ELSE IF n < 10 THEN <<Digit(n)>>
    ELSE Itoa(n \div 10) \o <<Digit(n % 10)>>

\* fmt.Sprintf("%v", v) of the values params hold.
Sprint(v) ==
    CASE v.kind = "int" -> Itoa(v.n)
      [] v.kind = "string" -> v.s

\* url.QueryEscape, character by character: letters, digits and - _ . ~ stay,
\* a space becomes +, every other character its %XX.
Unreserved ==
    {"a", "b", "c", "m", "t", "s", "-", "_", ".", "~",
     "0", "1", "2", "3", "4", "5", "6", "7", "8", "9"}

shouldEscape(c) == c \notin Unreserved

escape(c) ==
    CASE c = " " -> "+"
      [] c = "&" -> "%26"
      [] c = "=" -> "%3D"
      [] c = "?" -> "%3F"
      [] c = "{" -> "%7B"
      [] c = "}" -> "%7D"
      [] c = "+" -> "%2B"
      [] c = "%" -> "%25"

QueryEscape(s) == [i \in 1..Len(s) |-> IF shouldEscape(s[i]) THEN escape(s[i]) ELSE s[i]]

\* The orders in which a range over a map with the keys S can visit them: Go
\* fixes none, and varies it from one loop to the next.
Orders(S) ==
    {o \in [1..Cardinality(S) -> S] : \A i, j \in 1..Cardinality(S) : o[i] = o[j] => i = j}

\* queries, as the loop of makeUrl fills it when it visits the keys in order o.
queries(params, o) ==
    [i \in 1..Len(o) |-> <<o[i], "=">> \o QueryEscape(Sprint(params[o[i]]))]

\* makeUrl without the escaping of the values.
makeUrl_NoEscape(baseUrl, params) ==
    {IF Len(o) > 0
     THEN baseUrl \o <<"?">>
          \o Join([i \in 1..Len(o) |-> <<o[i], "=">> \o Sprint(params[o[i]])], <<"&">>)
     ELSE baseUrl : o \in Orders(DOMAIN params)}

\* makeUrl of the current client (and of the client of 2016-03-30): the URLs
\* it can return, one for each order the range can take.
makeUrl(baseUrl, params) ==
    {IF Len(o) > 0
     THEN baseUrl \o <<"?">> \o Join(queries(params, o), <<"&">>)
     ELSE baseUrl : o \in Orders(DOMAIN params)}

\* makeUrl of the oldest client, which appends "?" and the queries whatever
\* the number of params.
Oldest_makeUrl(baseUrl, params) ==
    {baseUrl \o <<"?">> \o Join(queries(params, o), <<"&">>) : o \in Orders(DOMAIN params)}

\* A JSON text, by its structure: the members of an object are in the order
\* they are written.
JNull == [json |-> "null"]
JString(s) == [json |-> "string", s |-> s]
JNumber(n) == [json |-> "number", n |-> n]
JBool(b) == [json |-> "bool", b |-> b]
JArray(xs) == [json |-> "array", items |-> xs]
JObject(ms) == [json |-> "object", members |-> ms]
Member(k, v) == [key |-> k, val |-> v]

\* The keys the bodies use, in the order encoding/json sorts map keys.
SortedKeys == <<"doc", "expressions", "id", "metadata", "name", "value", "values">>

MarshalStrings(xs) ==
    IF xs = None THEN JNull ELSE JArray([i \in 1..Len(Deref(xs)) |-> JString(Deref(xs)[i])])

\* json.Marshal of an EntityValue: both fields are written, a nil one as null,
\* since neither tag says omitempty.
MarshalEntityValue(ev) ==
    JObject(<<Member("expressions", MarshalStrings(ev.Expressions)),
              Member("value", IF ev.Value = None THEN JNull ELSE JString(Deref(ev.Value)))>>)

\* json.Marshal of a body.
RECURSIVE Marshal(_)
Marshal(v) ==
    CASE v.kind = "nil" -> JNull
      [] v.kind = "string" -> JString(v.s)
      [] v.kind = "int" -> JNumber(v.n)
      [] v.kind = "[]string" -> MarshalStrings(v.items)
      [] v.kind = "[]EntityValue" ->
            JArray([i \in 1..Len(v.items) |-> MarshalEntityValue(v.items[i])])
      [] v.kind = "map" ->
            LET keys == SelectSeq(SortedKeys, LAMBDA k : k \in DOMAIN v.m)
            IN JObject([i \in 1..Len(keys) |-> Member(keys[i], Marshal(v.m[keys[i]]))])

\* The arguments the operations are given.
QueryArgs == {<<>>, <<"a", " ", "&">>}
Contexts == {None, Some(<<"{", "c", "}">>)}
MessageIds == {<<>>, <<"m", "=", "1">>}
ThreadIds == {<<>>, <<"t", "?">>}
SessionIds == {<<"s", "1">>}
Ns == {-3, 0, 12}
Names == {<<"a">>}
Docs == {None, Some(<<>>), Some(<<"b", " ", "c">>)}
Metadatas == {None, Some(<<>>), Some(<<"m">>)}
Expressions == {None} \cup {Some(xs) : xs \in SeqUpTo({<<"b">>}, MaxValues)}
EntityValues == [Expressions : Expressions, Value : {None, Some(<<"c">>)}]
EntityValueLists == SeqUpTo(EntityValues, MaxValues)

ContextValue(context) == IF context = None THEN NilValue ELSE StringValue(Deref(context))

\* params of QueryMessage, with msg_id set whatever messageId is.
QueryMessage_params_AlwaysMsgId(a) ==
    Entry("q", StringValue(a.query))
    @@ EntryIf(a.context # None, "context", ContextValue(a.context))
    @@ Entry("msg_id", StringValue(a.messageId))
    @@ EntryIf(Len(a.threadId) > 0, "thread_id", StringValue(a.threadId))

QueryMessage_params(a) ==
    Entry("q", StringValue(a.query))
    @@ EntryIf(a.context # None, "context", ContextValue(a.context))
    @@ EntryIf(Len(a.messageId) > 0, "msg_id", StringValue(a.messageId))
    @@ EntryIf(Len(a.threadId) > 0, "thread_id", StringValue(a.threadId))

QuerySpeechMp3_params_NegativeOnly(a) ==
    EntryIf(a.context # None, "context", ContextValue(a.context))
    @@ EntryIf(Len(a.messageId) > 0, "msg_id", StringValue(a.messageId))
    @@ EntryIf(Len(a.threadId) > 0, "thread_id", StringValue(a.threadId))
    @@ Entry("n", IntValue(IF a.n < 0 THEN 1 ELSE a.n))

QuerySpeechMp3_params(a) ==
    EntryIf(a.context # None, "context", ContextValue(a.context))
    @@ EntryIf(Len(a.messageId) > 0, "msg_id", StringValue(a.messageId))
    @@ EntryIf(Len(a.threadId) > 0, "thread_id", StringValue(a.threadId))
    @@ Entry("n", IntValue(IF a.n <= 0 THEN 1 ELSE a.n))

\* params of SpeechMp3 of the older client.
Legacy_SpeechMp3_params(a) ==
    EntryIf(a.context # None, "context", ContextValue(a.context))
    @@ EntryIf(Len(a.messageId) > 0, "msg_id", StringValue(a.messageId))
    @@ EntryIf(Len(a.threadId) > 0, "thread_id", StringValue(a.threadId))
    @@ Entry("n", IntValue(IF a.n <= 0 THEN 1 ELSE a.n))

ConverseFirst_params(a) ==
    Entry("session_id", StringValue(a.sessionId))
    @@ EntryIf(a.context # None, "context", ContextValue(a.context))
    @@ EntryIf(Len(a.query) > 0, "q", StringValue(a.query))

\* data of CreateEntity, with doc set to "" when it is nil.
CreateEntity_data_NilDocAsEmpty(a) ==
    Entry("id", StringValue(a.idOrName))
    @@ Entry("doc", StringValue(IF a.doc = None THEN <<>> ELSE Deref(a.doc)))
    @@ EntryIf(Len(a.values) > 0, "values", EntityValuesValue(a.values))

CreateEntity_data(a) ==
    Entry("id", StringValue(a.idOrName))
    @@ EntryIf(a.doc # None, "doc", StringValue(Deref(a.doc)))
    @@ EntryIf(Len(a.values) > 0, "values", EntityValuesValue(a.values))

UpdateEntity_body(a) ==
    EntryIf(a.doc # None, "doc", StringValue(Deref(a.doc)))
    @@ EntryIf(Len(a.values) > 0, "values", EntityValuesValue(a.values))

CreateEntityValue_body(a) ==
    Entry("value", StringValue(a.value))
    @@ EntryIf(a.expressions # None /\ Len(Deref(a.expressions)) > 0,
               "expressions", StringsValue(a.expressions))
    @@ EntryIf(a.metadata # None, "metadata", StringValue(Deref(a.metadata)))

UpdateIntentAttrs_deprecated_body(a) ==
    EntryIf(a.name # None, "name", StringValue(Deref(a.name)))
    @@ EntryIf(a.doc # None, "doc", StringValue(Deref(a.doc)))
    @@ EntryIf(a.metadata # None, "metadata", StringValue(Deref(a.metadata)))

\* One more call of operation o with the arguments a builds one of reqs, having
\* handed params to makeUrl.
Builds(o, a, params, reqs) ==
    /\ Len(breqs) < MaxBuilds
    /\ bop = "none" \/ (bop = o /\ bargs = a)
    /\ \E r \in reqs : breqs' = Append(breqs, r)
    /\ bop' = o
    /\ bargs' = a
    /\ bparams' = params
    /\ UNCHANGED <<wire, decoded, rerr, hasError, errorMessage, calls, client, procs,
                   clientVars>>

QueryMessage_request(a) ==
    Builds("QueryMessage", a, QueryMessage_params(a),
           {request("GET", u, Marshal(ContextValue(a.context))) :
                u \in makeUrl(<<Host, "/message">>, QueryMessage_params(a))})

QuerySpeechMp3_request(a) ==
    Builds("QuerySpeechMp3", a, QuerySpeechMp3_params(a),
           {upload("POST", u, a.file.data, "audio/mpeg3") :
                u \in makeUrl(<<Host, "/speech">>, QuerySpeechMp3_params(a))})

Legacy_SpeechMp3_request(a) ==
    Builds("Legacy_SpeechMp3", a, Legacy_SpeechMp3_params(a),
           {upload("POST", u, a.file.data, "audio/mpeg3") :
                u \in makeUrl(<<Host, "/speech">>, Legacy_SpeechMp3_params(a))})

ConverseFirst_request(a) ==
    Builds("ConverseFirst", a, ConverseFirst_params(a),
           {request("POST", u, Marshal(ContextValue(a.context))) :
                u \in makeUrl(<<Host, "/converse">>, ConverseFirst_params(a))})

GetAllEntities_request ==
    Builds("GetAllEntities", <<>>, EmptyMap,
           {request("GET", u, Marshal(NilValue)) : u \in makeUrl(<<Host, "/entities">>, EmptyMap)})

CreateEntity_request(a) ==
    Builds("CreateEntity", a, EmptyMap,
           {request("POST", u, Marshal(MapValue(CreateEntity_data(a)))) :
                u \in makeUrl(<<Host, "/entities">>, EmptyMap)})

UpdateEntity_request(a) ==
    Builds("UpdateEntity", a, EmptyMap,
           {request("PUT", u, Marshal(MapValue(UpdateEntity_body(a)))) :
                u \in makeUrl(<<Host, "/entities/">> \o a.entityId, EmptyMap)})

CreateEntityValue_request(a) ==
    Builds("CreateEntityValue", a, EmptyMap,
           {request("POST", u, Marshal(MapValue(CreateEntityValue_body(a)))) :
                u \in makeUrl(<<Host, "/entities/">> \o a.entityId \o <<"/values">>, EmptyMap)})

UpdateIntentAttrs_deprecated_request(a) ==
    Builds("UpdateIntentAttrs_deprecated", a, EmptyMap,
           {request("PUT", u, Marshal(MapValue(UpdateIntentAttrs_deprecated_body(a)))) :
                u \in makeUrl(<<Host, "/intents/">> \o a.intentIdOrName, EmptyMap)})

\* makeUrl called on its own, by the current client and by the oldest one.
ParamKeys == {"q", "n", "context"}
ParamValues == {StringValue(<<>>), StringValue(<<"a", " ", "&">>), IntValue(12)}
ParamMaps ==
    UNION {[S -> ParamValues] : S \in {T \in SUBSET ParamKeys : Cardinality(T) <= MaxParams}}

makeUrl_call(params) ==
    Builds("makeUrl", params, params, {[url |-> u] : u \in makeUrl(<<Host, "/message">>, params)})

Oldest_makeUrl_call(params) ==
    Builds("Oldest_makeUrl", params, params,
           {[url |-> u] : u \in Oldest_makeUrl(<<Host, "/message">>, params)})

\* ------------------------------------------------------- decoding responses
\* A JSON object received, by its keys; a key can be missing.
OptEntries(k, vs) == {EmptyMap} \cup {k :> v : v \in vs}

ConverseWires ==
    {e @@ c @@ t @@ m @@ a @@ n @@ f :
        e \in OptEntries("error", {JString(<<"e">>)}),
        c \in OptEntries("code", {JString(<<"c">>)}),
        t \in OptEntries("type", {JString(<<"msg">>)}),
        m \in OptEntries("msg", {JString(<<"hi">>)}),
        a \in OptEntries("action", {JString(<<"a">>)}),
        n \in OptEntries("entities", {EmptyMap}),
        f \in OptEntries("confidence", {JNumber(0), JNumber(1)})}

OutcomeWires ==
    {t @@ i @@ n @@ f :
        t \in OptEntries("_text", {JString(<<"hi">>)}),
        i \in OptEntries("intent", {JString(<<"a">>)}),
        n \in OptEntries("entities", {EmptyMap}),
        f \in OptEntries("confidence", {JNumber(0), JNumber(1)})}

\* The members of a JSON object as the decoder sees them: one value per key,
\* the last one written when a key repeats.
Fields(j) ==
    [k \in {j.members[i].key : i \in 1..Len(j.members)} |->
        LET last == CHOOSE i \in 1..Len(j.members) :
                        /\ j.members[i].key = k
                        /\ \A n \in (i + 1)..Len(j.members) : j.members[n].key # k
        IN  j.members[last].val]

\* A key the decoder fills a field from: present, and not null.
Given(w, k) == k \in DOMAIN w /\ w[k] # JNull

EntityValueWires ==
    {JObject(x \o v) :
        x \in {<<>>, <<Member("expressions", JArray(<<JString(<<"b">>)>>))>>},
        v \in {<<>>, <<Member("value", JString(<<"c">>))>>}}

EntityWires ==
    {e @@ i @@ d @@ c @@ x @@ b @@ v :
        e \in OptEntries("error", {JString(<<"e">>)}),
        i \in OptEntries("id", {JString(<<"a">>)}),
        d \in OptEntries("doc", {JString(<<>>), JString(<<"b">>)}),
        c \in OptEntries("closed", {JBool(FALSE), JBool(TRUE)}),
        x \in OptEntries("exotic", {JBool(FALSE), JBool(TRUE)}),
        b \in OptEntries("builtin", {JBool(FALSE), JBool(TRUE)}),
        v \in OptEntries("values", {JArray(vs) : vs \in SeqUpTo(EntityValueWires, MaxValues)})}

\* What json.Unmarshal leaves in a field of each type when the key is missing.
StringPtr(w, k) == IF Given(w, k) THEN Some(w[k].s) ELSE None
MapField(w, k) == IF Given(w, k) THEN Some(w[k]) ELSE None
Float32(w, k) == IF Given(w, k) THEN w[k].n ELSE 0
Bool(w, k) == IF Given(w, k) THEN w[k].b ELSE FALSE

UnmarshalConverse(w) ==
    [Error |-> StringPtr(w, "error"), Code |-> StringPtr(w, "code"),
     Type |-> StringPtr(w, "type"), Message |-> StringPtr(w, "msg"),
     Action |-> StringPtr(w, "action"), Entities |-> MapField(w, "entities"),
     Confidence |-> Float32(w, "confidence")]

UnmarshalOutcome(w) ==
    [Text |-> StringPtr(w, "_text"), Intent |-> StringPtr(w, "intent"),
     Entities |-> MapField(w, "entities"), Confidence |-> Float32(w, "confidence")]

UnmarshalEntityValue(w) ==
    [Expressions |-> IF Given(w, "expressions")
                     THEN Some([i \in 1..Len(w["expressions"].items) |->
                                    w["expressions"].items[i].s])
                     ELSE None,
     Value |-> StringPtr(w, "value")]

UnmarshalEntity(w) ==
    [Error |-> StringPtr(w, "error"), Code |-> StringPtr(w, "code"),
     Id |-> StringPtr(w, "id"), Name |-> StringPtr(w, "name"),
     Doc |-> StringPtr(w, "doc"), Lang |-> StringPtr(w, "lang"),
     Closed |-> Bool(w, "closed"), Exotic |-> Bool(w, "exotic"),
     Builtin |-> Bool(w, "builtin"),
     Values |-> IF Given(w, "values")
                THEN Some([i \in 1..Len(w["values"].items) |->
                               UnmarshalEntityValue(Fields(w["values"].items[i]))])
                ELSE None]

\* The object w is decoded into a value of type o, giving d.
Unmarshals(o, w, d) ==
    /\ bop = "none"
    /\ bop' = o
    /\ wire' = <<w>>
    /\ decoded' = <<d>>
    /\ UNCHANGED <<bargs, bparams, breqs, rerr, hasError, errorMessage, calls, client,
                   procs, clientVars>>

Converse_decoded ==
    /\ bop = "none"
    /\ \E w \in ConverseWires : Unmarshals("Converse", w, UnmarshalConverse(w))
Outcome_decoded ==
    /\ bop = "none"
    /\ \E w \in OutcomeWires : Unmarshals("Outcome", w, UnmarshalOutcome(w))
Entity_decoded ==
    /\ bop = "none"
    /\ \E w \in EntityWires : Unmarshals("Entity", w, UnmarshalEntity(w))

\* The bodies the server answers GET /message with: an object with any of the
\* error indicators, msg_id, _text, and outcomes (null, or an array of outcome
\* objects).
OutcomeItems ==
    {JObject(<<Member("_text", JString(<<"hi">>)), Member("intent", JString(i)),
               Member("entities", EmptyMap), Member("confidence", JNumber(1))>>) :
        i \in {<<"a">>, <<"b">>}}

MessageWires ==
    {e @@ b @@ m @@ t @@ o :
        e \in OptEntries("error", {JString(<<"e">>)}),
        b \in OptEntries("body", {JString(<<"b">>)}),
        m \in OptEntries("msg_id", {JString(<<"m">>)}),
        t \in OptEntries("_text", {JString(<<"hi">>)}),
        o \in OptEntries("outcomes",
                         {JNull} \cup {JArray(xs) : xs \in SeqUpTo(OutcomeItems, MaxIntents)})}

ZeroMessage ==
    [Error |-> None, Code |-> None, Errors |-> <<>>, Body |-> None,
     MessageId |-> None, Text |-> None, Outcomes |-> None]

UnmarshalMessage_FirstOutcomeOnly(w) ==
    [Error |-> StringPtr(w, "error"), Code |-> StringPtr(w, "code"),
     Errors |-> IF Given(w, "errors")
                THEN [i \in 1..Len(w["errors"].items) |-> w["errors"].items[i].s]
                ELSE <<>>,
     Body |-> StringPtr(w, "body"),
     MessageId |-> StringPtr(w, "msg_id"), Text |-> StringPtr(w, "_text"),
     Outcomes |-> IF Given(w, "outcomes")
                  THEN Some([i \in 1..(IF Len(w["outcomes"].items) > 0 THEN 1 ELSE 0) |->
                                 UnmarshalOutcome(Fields(w["outcomes"].items[i]))])
                  ELSE None]

UnmarshalMessage(w) ==
    [Error |-> StringPtr(w, "error"), Code |-> StringPtr(w, "code"),
     Errors |-> IF Given(w, "errors")
                THEN [i \in 1..Len(w["errors"].items) |-> w["errors"].items[i].s]
                ELSE <<>>,
     Body |-> StringPtr(w, "body"),
     MessageId |-> StringPtr(w, "msg_id"), Text |-> StringPtr(w, "_text"),
     Outcomes |-> IF Given(w, "outcomes")
                  THEN Some([i \in 1..Len(w["outcomes"].items) |->
                                 UnmarshalOutcome(Fields(w["outcomes"].items[i]))])
                  ELSE None]

\* QueryMessage once request has returned the body w: the body is decoded
\* into a Message, which is returned unless it has an error.
QueryMessage_decoded ==
    /\ bop = "none"
    /\ \E w \in MessageWires :
        LET msgRes == UnmarshalMessage(w)
        IN  /\ bop' = "QueryMessage response"
            /\ wire' = <<w>>
            /\ decoded' = <<IF ~HasError(msgRes)
                              THEN [response |-> msgRes, err |-> None]
                              ELSE [response |-> ZeroMessage,
                                    err |-> Some(Errorf("message", "response",
                                                        ErrorMessage(msgRes)))]>>
    /\ UNCHANGED <<bargs, bparams, breqs, rerr, hasError, errorMessage, calls, client,
                   procs, clientVars>>

\* The entities that are rendered, and encoded and decoded again.
RoundTripExpressions ==
    {None, Some(<<>>), Some(<<<<"x">>, <<"y">>>>), Some(<<<<"y">>, <<"x">>>>)}
RoundTripValues == [Expressions : RoundTripExpressions, Value : {None, Some(<<"a">>)}]
Entities ==
    [Error : {None, Some(<<"e">>)}, Code : {None}, Id : {None, Some(<<"a">>)},
     Name : {None}, Doc : {None, Some(<<>>), Some(<<"b">>)}, Lang : {None},
     Closed : BOOLEAN, Exotic : {FALSE}, Builtin : BOOLEAN,
     Values : {None} \cup {Some(vs) : vs \in SeqUpTo(RoundTripValues, MaxValues)}]

\* fmt.Sprintf("<Name>: %s", text), and the formats of the other field types:
\* %.6f of a whole number, %t, %v of an empty map.
Attr(name, text) == <<name, ":", " ">> \o text
Float6(n) == Itoa(n) \o <<".", "000000">>
BoolText(b) == IF b THEN <<"true">> ELSE <<"false">>
MapText(m) == <<"map[", "]">>

\* fmt.Sprintf("{%s}", strings.Join(attrs, ", "))
Braces(attrs) == <<"{">> \o Join(attrs, <<",", " ">>) \o <<"}">>

\* func (c Converse) String() string
Converse_String(c) ==
    LET attrs0 == <<>>
        attrs1 == IF c.Error # None
                  THEN Append(attrs0, Attr("Error", Deref(c.Error))) ELSE attrs0
        attrs2 == IF c.Code # None
                  THEN Append(attrs1, Attr("Code", Deref(c.Code))) ELSE attrs1
        attrs3 == IF c.Type # None
                  THEN Append(attrs2, Attr("Type", Deref(c.Type))) ELSE attrs2
        attrs4 == IF c.Message # None
                  THEN Append(attrs3, Attr("Message", Deref(c.Message))) ELSE attrs3
        attrs5 == IF c.Entities # None
                  THEN Append(attrs4, Attr("Entities", MapText(Deref(c.Entities))))
                  ELSE attrs4
        attrs6 == Append(attrs5, Attr("Confidence", Float6(c.Confidence)))
    IN  Braces(attrs6)

\* %v of a []EntityValue: EntityValue has no String method, so each item is
\* printed as a struct, its expressions between brackets and its value
\* pointer as <nil> or as the address it holds.
Addresses == {"0xc000010250", "0xc000010260"}
EntityValueText(ev, addr) ==
    <<"{", "[">>
    \o (IF ev.Expressions = None THEN <<>> ELSE Join(Deref(ev.Expressions), <<" ">>))
    \o <<"]", " ", IF ev.Value = None THEN "<nil>" ELSE addr, "}">>
EntityValuesText(vs, addrs) ==
    <<"[">> \o Join([i \in 1..Len(vs) |-> EntityValueText(vs[i], addrs[i])], <<" ">>)
    \o <<"]">>

\* func (e Entity) String() string
Entity_String(e, addrs) ==
    LET attrs0 == <<>>
        attrs1 == IF e.Error # None
                  THEN Append(attrs0, Attr("Error", Deref(e.Error))) ELSE attrs0
        attrs2 == IF e.Code # None
                  THEN Append(attrs1, Attr("Code", Deref(e.Code))) ELSE attrs1
        attrs3 == IF e.Id # None THEN Append(attrs2, Attr("Id", Deref(e.Id))) ELSE attrs2
        attrs4 == IF e.Name # None
                  THEN Append(attrs3, Attr("Name", Deref(e.Name))) ELSE attrs3
        attrs5 == IF e.Doc # None THEN Append(attrs4, Attr("Doc", Deref(e.Doc))) ELSE attrs4
        attrs6 == IF e.Lang # None
                  THEN Append(attrs5, Attr("Lang", Deref(e.Lang))) ELSE attrs5
        attrs7 == Append(attrs6, Attr("Closed", BoolText(e.Closed)))
        attrs8 == Append(attrs7, Attr("Exotic", BoolText(e.Exotic)))
        attrs9 == Append(attrs8, Attr("Builtin", BoolText(e.Builtin)))
        attrs10 == IF e.Values # None /\ Len(Deref(e.Values)) > 0
                   THEN Append(attrs9, Attr("Values", EntityValuesText(Deref(e.Values), addrs)))
                   ELSE attrs9
    IN  Braces(attrs10)

\* The Converse values String is called on: what the bodies of ConverseWires
\* decode into.
Converses == {UnmarshalConverse(w) : w \in ConverseWires}

\* String is called on the value v and returns text.
Renders(o, v, text) ==
    /\ bop' = o
    /\ bargs' = v
    /\ decoded' = <<text>>
    /\ UNCHANGED <<bparams, breqs, wire, rerr, hasError, errorMessage, calls, client,
                   procs, clientVars>>

Converse_String_call ==
    /\ bop = "none"
    /\ \E c \in Converses : Renders("Converse.String", c, Converse_String(c))
Entity_String_call ==
    /\ bop = "none"
    /\ \E e \in Entities, addrs \in [1..MaxValues -> Addresses] :
        Renders("Entity.String", e, Entity_String(e, addrs))

\* What the transport gives a converse request: a transport failure, bytes
\* that are not JSON, or a JSON object.
ConverseAnswers ==
    {[kind |-> "neterr", obj |-> EmptyMap], [kind |-> "invalid", obj |-> EmptyMap]}
    \cup {[kind |-> "object", obj |-> w] :
            w \in {v \in ConverseWires : DOMAIN v \subseteq {"error", "type", "msg"}}}

ZeroConverse ==
    [Error |-> None, Code |-> None, Type |-> None, Message |-> None, Action |-> None,
     Entities |-> None, Confidence |-> 0]

\* The ResponseError embedded in the value decoded from w.
Embedded(w) ==
    [Error |-> StringPtr(w, "error"), Code |-> StringPtr(w, "code"),
     Errors |-> IF Given(w, "errors")
                THEN [i \in 1..Len(w["errors"].items) |-> w["errors"].items[i].s]
                ELSE <<>>,
     Body |-> StringPtr(w, "body")]

\* func (c *Client) ConverseFirst(sessionId, query string, context interface{}):
\* the requests it can send (one per order of the keys) and, for the answer
\* ans, what it returns.
ConverseFirst_call(sessionId, query, context, ans) ==
    LET params == ConverseFirst_params([sessionId |-> sessionId, query |-> query,
                                        context |-> context])
        converseRes == UnmarshalConverse(ans.obj)
    IN  [params |-> params,
         reqs |-> {request("POST", u, Marshal(ContextValue(context))) :
                      u \in makeUrl(<<Host, "/converse">>, params)},
         out |-> IF ans.kind = "neterr"
                 THEN [response |-> ZeroConverse,
                       err |-> Some(Errorf("converse", "request", NetCause))]
                 ELSE IF ans.kind = "invalid"
                 THEN [response |-> ZeroConverse,
                       err |-> Some(Errorf("converse", "parse", SyntaxCause))]
                 ELSE IF ~HasError(Embedded(ans.obj))
                 THEN [response |-> converseRes, err |-> None]
                 ELSE [response |-> ZeroConverse,
                       err |-> Some(Errorf("converse", "response",
                                           ErrorMessage(Embedded(ans.obj))))]]

ConverseNext_call_SendsQuery(sessionId, context, ans) ==
    ConverseFirst_call(sessionId, <<"a">>, context, ans)

\* func (c *Client) ConverseNext(sessionId string, context interface{})
ConverseNext_call(sessionId, context, ans) ==
    ConverseFirst_call(sessionId, <<>>, context, ans)

\* The operation o, called with a, handed call.params to makeUrl, sent one of
\* the requests of call, was answered ans and returned call.out.
Answered(o, a, ans, call) ==
    /\ bop' = o
    /\ bargs' = a
    /\ bparams' = call.params
    /\ \E r \in call.reqs : breqs' = <<r>>
    /\ wire' = <<ans>>
    /\ decoded' = <<call.out>>
    /\ UNCHANGED <<rerr, hasError, errorMessage, calls, client, procs, clientVars>>

ConverseFirst_called ==
    /\ bop = "none"
    /\ \E a \in [sessionId : SessionIds, query : QueryArgs, context : Contexts],
          ans \in ConverseAnswers :
        Answered("ConverseFirst call", a, ans,
                 ConverseFirst_call(a.sessionId, a.query, a.context, ans))
ConverseNext_called ==
    /\ bop = "none"
    /\ \E a \in [sessionId : SessionIds, context : Contexts], ans \in ConverseAnswers :
        Answered("ConverseNext call", a, ans,
                 ConverseNext_call(a.sessionId, a.context, ans))

\* json.Marshal of an Entity: the embedded ResponseError's error and code are
\* left out when nil (omitempty); every other field is written, a nil pointer
\* or a nil slice as null.
Nullable(p) == IF p = None THEN JNull ELSE JString(Deref(p))

MarshalEntity_OmitsEmptyValues(e) ==
    JObject((IF e.Error = None THEN <<>> ELSE <<Member("error", JString(Deref(e.Error)))>>)
            \o (IF e.Code = None THEN <<>> ELSE <<Member("code", JString(Deref(e.Code)))>>)
            \o <<Member("id", Nullable(e.Id)), Member("name", Nullable(e.Name)),
                 Member("doc", Nullable(e.Doc)), Member("lang", Nullable(e.Lang)),
                 Member("closed", JBool(e.Closed)), Member("exotic", JBool(e.Exotic)),
                 Member("builtin", JBool(e.Builtin))>>
            \o (IF e.Values = None \/ e.Values = Some(<<>>)
                THEN <<>>
                ELSE <<Member("values",
                              JArray([i \in 1..Len(Deref(e.Values)) |->
                                         MarshalEntityValue(Deref(e.Values)[i])]))>>))

MarshalEntity(e) ==
    JObject((IF e.Error = None THEN <<>> ELSE <<Member("error", JString(Deref(e.Error)))>>)
            \o (IF e.Code = None THEN <<>> ELSE <<Member("code", JString(Deref(e.Code)))>>)
            \o <<Member("id", Nullable(e.Id)), Member("name", Nullable(e.Name)),
                 Member("doc", Nullable(e.Doc)), Member("lang", Nullable(e.Lang)),
                 Member("closed", JBool(e.Closed)), Member("exotic", JBool(e.Exotic)),
                 Member("builtin", JBool(e.Builtin)),
                 Member("values",
                        IF e.Values = None
                        THEN JNull
                        ELSE JArray([i \in 1..Len(Deref(e.Values)) |->
                                        MarshalEntityValue(Deref(e.Values)[i])]))>>)

\* json.Marshal of the entity e, then json.Unmarshal of the bytes into a new
\* Entity.
Entity_roundtrip ==
    /\ bop = "none"
    /\ \E e \in Entities :
        /\ bop' = "Entity round trip"
        /\ bargs' = e
        /\ wire' = <<MarshalEntity(e)>>
        /\ decoded' = <<UnmarshalEntity(Fields(MarshalEntity(e)))>>
    /\ UNCHANGED <<bparams, breqs, rerr, hasError, errorMessage, calls, client, procs,
                   clientVars>>

\* No goroutine is inside a call.
Procs == {1, 2}
IdleProc ==
    [pc |-> "idle", op |-> "none", req |-> None, answer |-> None, res |-> None,
     response |-> ZeroStruct, err |-> None]
NoCallRunning == procs = [p \in Procs |-> IdleProc]

\* ----------------------------------------------------------- specification
Init ==
    /\ pc = "idle"
    /\ op = "none"
    /\ sent = <<>>
    /\ received = <<>>
    /\ responses = <<>>
    /\ response = ZeroStruct
    /\ err = None
    /\ rerr = ZeroResponseError
    /\ hasError = None
    /\ errorMessage = None
    /\ calls = 0
    /\ fileRead = None
    /\ CodecIdle
    /\ NoCallRunning
    /\ client \in DefaultClients

\* An operation is called and the transport answers with replies of R, or the
\* caller takes the result of the last call.
Calls(R) ==
    \/ \E rep \in R :
        \/ QueryMessage(rep)
        \/ ConverseFirst(rep)
        \/ ConverseNext(rep)
        \/ GetAllEntities(rep)
        \/ CreateEntity(rep)
        \/ ShowEntity(rep)
        \/ UpdateEntity(rep)
        \/ DeleteEntity(rep)
        \/ CreateEntityValue(rep)
        \/ DeleteEntityValue(rep)
        \/ CreateEntityExpression(rep)
        \/ DeleteEntityExpression(rep)
        \/ GetAllIntents_deprecated(rep)
        \/ ShowIntent_deprecated(rep)
        \/ UpdateIntentAttrs_deprecated(rep)
        \/ CreateIntentExpressions_deprecated(rep)
        \/ DeleteIntentExpression_deprecated(rep)
        \/ GetMessage_deprecated(rep)
        \/ Legacy_Converse(rep)
        \/ Legacy_ConverseNext(rep)
        \/ Legacy_Message(rep)
        \/ ConverseAll(rep)
        \/ ConverseAllLoop(rep)
    \/ \E rep \in R, file \in ReadFile :
        \/ QuerySpeechMp3(file, rep)
        \/ Legacy_SpeechMp3(file, rep)
    \/ \E rep \in R, n \in 0..MaxIntents :
        \/ CreateIntent_deprecated(n, rep)
        \/ Legacy_CreateNewIntent(n, rep)
    \/ Return

Next == Calls(Replies)

Spec == Init /\ [][Next]_vars

\* The same operations on a client built by either constructor, with a
\* transport that answers with one reply of each kind.
OkReplies ==
    {Invalid, ObjectReply([EmptyObject EXCEPT !.error = Some(<<"e">>)]),
     ArrayReply("strings", <<(<<"s">>)>>)}
    \cup {ObjectReply([EmptyObject EXCEPT !.type = Some(t), !.payload = Some(<<"p">>)]) :
             t \in TurnTypes}

FewReplies ==
    {NetErr} \cup OkReplies
    \cup {StatusReply(r, 500, FALSE) : r \in OkReplies}
    \cup {StatusReply(r, 200, TRUE) : r \in OkReplies}

InitClients ==
    /\ pc = "idle"
    /\ op = "none"
    /\ sent = <<>>
    /\ received = <<>>
    /\ responses = <<>>
    /\ response = ZeroStruct
    /\ err = None
    /\ rerr = ZeroResponseError
    /\ hasError = None
    /\ errorMessage = None
    /\ calls = 0
    /\ fileRead = None
    /\ CodecIdle
    /\ NoCallRunning
    /\ client \in Clients

NextClients == Calls(FewReplies)

SpecClients == InitClients /\ [][NextClients]_vars

\* ------------------------------------------------------- concurrent calls
\* Two goroutines call operations on one client.  A call takes three steps:
\* it builds its request from its arguments and the headers of the client,
\* the transport answers it (client.Do and ioutil.ReadAll, into the local
\* res), and it decodes res and returns.  A call has only locals: req, resp,
\* res and the result are variables of request and of the operation.
ConcurrentOps == {"QueryMessage", "ConverseFirst", "GetAllEntities", "DeleteEntity"}

RequestOf(o) ==
    CASE o = "QueryMessage" -> request("GET", <<Host, "/message">>, <<"context">>)
      [] o = "ConverseFirst" -> request("POST", <<Host, "/converse">>, <<"context">>)
      [] o = "GetAllEntities" -> request("GET", <<Host, "/entities">>, <<"null">>)
      [] o = "DeleteEntity" -> request("DELETE", <<Host, "/entities/", "id">>, <<"null">>)

ResultOf(o, rep) ==
    CASE o = "QueryMessage" -> CheckedCall("message", OpTarget(o), rep)
      [] o = "ConverseFirst" -> CheckedCall("converse", OpTarget(o), rep)
      [] o = "GetAllEntities" -> UncheckedCall("get all entities", OpTarget(o), rep)
      [] o = "DeleteEntity" -> UncheckedCall("delete entity", OpTarget(o), rep)

Runs(p, q) == /\ procs' = [procs EXCEPT ![p] = q]
              /\ UNCHANGED <<clientVars, rerr, hasError, errorMessage, calls, codecVars, client>>

\* Goroutine p calls operation o, which builds its request.
Go(p, o) ==
    /\ procs[p].pc = "idle"
    /\ Runs(p, [procs[p] EXCEPT !.pc = "requesting", !.op = o, !.req = Some(RequestOf(o))])

\* The transport answers the request of p, as if res were kept in the client.
Do_ResInClient(p, rep) ==
    /\ procs[p].pc = "requesting"
    /\ procs' = [q \in Procs |->
                    IF q = p
                    THEN [procs[q] EXCEPT !.pc = "answered", !.answer = Some(rep),
                                          !.res = Some(rep)]
                    ELSE IF procs[q].pc = "answered"
                    THEN [procs[q] EXCEPT !.res = Some(rep)]
                    ELSE procs[q]]
    /\ UNCHANGED <<clientVars, rerr, hasError, errorMessage, calls, codecVars, client>>

\* The transport answers the request of p: client.Do and ioutil.ReadAll.
Do(p, rep) ==
    /\ procs[p].pc = "requesting"
    /\ Runs(p, [procs[p] EXCEPT !.pc = "answered", !.answer = Some(rep), !.res = Some(rep)])

\* The operation p called decodes res and returns.
Done(p) ==
    /\ procs[p].pc = "answered"
    /\ LET out == ResultOf(procs[p].op, Deref(procs[p].res))
       IN Runs(p, [procs[p] EXCEPT !.pc = "done", !.response = out.response,
                                   !.err = out.err])

InitConcurrent ==
    /\ pc = "idle"
    /\ op = "none"
    /\ sent = <<>>
    /\ received = <<>>
    /\ responses = <<>>
    /\ response = ZeroStruct
    /\ err = None
    /\ rerr = ZeroResponseError
    /\ hasError = None
    /\ errorMessage = None
    /\ calls = 0
    /\ fileRead = None
    /\ CodecIdle
    /\ NoCallRunning
    /\ client \in Clients

NextConcurrent ==
    \E p \in Procs :
        \/ \E o \in ConcurrentOps : Go(p, o)
        \/ \E rep \in FewReplies : Do(p, rep)
        \/ Done(p)

SpecConcurrent == InitConcurrent /\ [][NextConcurrent]_vars

\* --------------------------------------------- the ResponseError helpers
\* HasError and ErrorMessage are pure: they are applied to every
\* ResponseError value of the bounded domain.
CallHasError ==
    /\ IsNil(hasError)
    /\ hasError' = Some(HasError(rerr))
    /\ UNCHANGED <<rerr, errorMessage, calls, codecVars, client, procs, clientVars>>

CallErrorMessage ==
    /\ IsNil(errorMessage)
    /\ errorMessage' = Some(ErrorMessage(rerr))
    /\ UNCHANGED <<rerr, hasError, calls, codecVars, client, procs, clientVars>>

InitHelpers ==
    /\ pc = "idle"
    /\ op = "none"
    /\ sent = <<>>
    /\ received = <<>>
    /\ responses = <<>>
    /\ response = ZeroStruct
    /\ err = None
    /\ rerr \in ResponseErrors
    /\ hasError = None
    /\ errorMessage = None
    /\ calls = 0
    /\ fileRead = None
    /\ CodecIdle
    /\ NoCallRunning
    /\ client \in DefaultClients

NextHelpers == CallHasError \/ CallErrorMessage

SpecHelpers == InitHelpers /\ [][NextHelpers]_vars

\* The building of requests and the decoding of responses, on their own.
InitCodec ==
    /\ pc = "idle"
    /\ op = "none"
    /\ sent = <<>>
    /\ received = <<>>
    /\ responses = <<>>
    /\ response = ZeroStruct
    /\ err = None
    /\ rerr = ZeroResponseError
    /\ hasError = None
    /\ errorMessage = None
    /\ calls = 0
    /\ fileRead = None
    /\ CodecIdle
    /\ NoCallRunning
    /\ client \in DefaultClients

NextCodec ==
    \/ \E a \in [query : QueryArgs, context : Contexts, messageId : MessageIds,
                 threadId : ThreadIds] : QueryMessage_request(a)
    \/ \E a \in [file : {f \in ReadFile : f.ok}, context : Contexts, messageId : MessageIds,
                 threadId : ThreadIds, n : Ns] : QuerySpeechMp3_request(a)
    \/ \E a \in [file : {f \in ReadFile : f.ok}, context : Contexts, messageId : {<<>>},
                 threadId : {<<>>}, n : Ns] : Legacy_SpeechMp3_request(a)
    \/ \E a \in [sessionId : SessionIds, query : QueryArgs, context : Contexts] :
        ConverseFirst_request(a)
    \/ GetAllEntities_request
    \/ \E a \in [idOrName : Names, doc : Docs, values : EntityValueLists] :
        CreateEntity_request(a)
    \/ \E a \in [entityId : Names, doc : Docs, values : EntityValueLists] :
        UpdateEntity_request(a)
    \/ \E a \in [entityId : Names, value : Names, expressions : Expressions,
                 metadata : Metadatas] : CreateEntityValue_request(a)
    \/ \E a \in [intentIdOrName : Names, name : Metadatas, doc : Docs,
                 metadata : Metadatas] : UpdateIntentAttrs_deprecated_request(a)
    \/ \E params \in ParamMaps : makeUrl_call(params)
    \/ \E params \in ParamMaps : Oldest_makeUrl_call(params)
    \/ Converse_decoded
    \/ Outcome_decoded
    \/ Entity_decoded
    \/ Entity_roundtrip
    \/ QueryMessage_decoded
    \/ Converse_String_call
    \/ ConverseFirst_called
    \/ ConverseNext_called
    \/ Entity_String_call

SpecCodec == InitCodec /\ [][NextCodec]_vars


\* ================================================================= claims
\* The last reply the transport gave to this invocation.
LastReply == received[Len(received)]

\* The reply decodes into the result type of the operation.
Decodes(o, rep) == rep.kind # "neterr" /\ Unmarshal(OpTarget(o), rep).ok

\* The body of the reply reports a failure of the remote service.
ReportsError(rep) ==
    /\ rep.kind = "object"
    /\ \/ ~IsNil(rep.obj.error)
       \/ rep.obj.errors # <<>>
       \/ ~IsNil(rep.obj.body)

\* The error e is "<operation> <phase> error: <cause>".
Labelled(e, phase, cause) ==
    /\ ~IsNil(e)
    /\ Len(Deref(e)) >= 3
    /\ Deref(e)[2] = phase
    /\ Deref(e)[3] = "error:"
    /\ SubSeq(Deref(e), 4, Len(Deref(e))) = cause

\* ---- C1
\* C1: HasError returns true if and only if the single error message is
\* present, or the per-item errors list is non-empty, or the raw error body
\* is present; with none of the three it returns false.
C1_HasErrorIff ==
    ~IsNil(hasError) =>
        (Deref(hasError) <=>
            (rerr.Error # None \/ Len(rerr.Errors) >= 1 \/ rerr.Body # None))

\* HasError was called on a response that only has a raw body, and on none
\* of the other indicators, and said true.
C1_Witness ==
    /\ hasError = Some(TRUE)
    /\ rerr.Error = None
    /\ rerr.Errors = <<>>
    /\ rerr.Body # None
    /\ rerr.Code = None

\* ---- C2
\* The number of tokens of the first k parts, each followed by a separator.
RECURSIVE OffsetAfter(_, _)
OffsetAfter(parts, k) ==
    IF k = 0 THEN 0 ELSE OffsetAfter(parts, k - 1) + Len(parts[k]) + 1

\* text is the parts in their order with one comma between neighbours.
IsCommaJoinOf(text, parts) ==
    /\ Len(text) = IF Len(parts) = 0 THEN 0 ELSE OffsetAfter(parts, Len(parts)) - 1
    /\ \A i \in 1..Len(parts) :
         LET from == OffsetAfter(parts, i - 1) IN
         /\ SubSeq(text, from + 1, from + Len(parts[i])) = parts[i]
         /\ i < Len(parts) => text[from + Len(parts[i]) + 1] = ","

\* C2: ErrorMessage is the comma-joined sequence of all per-item errors in
\* their original order, then the single error message if present, then the
\* raw body if present.
C2_ErrorMessageOrder ==
    ~IsNil(errorMessage) =>
        IsCommaJoinOf(Deref(errorMessage),
                      rerr.Errors
                      \o (IF rerr.Error = None THEN <<>> ELSE <<Deref(rerr.Error)>>)
                      \o (IF rerr.Body = None THEN <<>> ELSE <<Deref(rerr.Body)>>))

\* ErrorMessage was called on a response holding two different per-item
\* errors, a non-empty single error and a raw body.
C2_Witness ==
    /\ ~IsNil(errorMessage)
    /\ Len(rerr.Errors) = 2
    /\ rerr.Errors[1] # rerr.Errors[2]
    /\ rerr.Error = Some(<<"e">>)
    /\ rerr.Body = Some(<<"b">>)
    /\ Deref(errorMessage) = rerr.Errors[1] \o <<",">> \o rerr.Errors[2] \o <<",", "e", ",", "b">>

\* ---- C3
\* C3: for every endpoint operation a transport failure is returned as
\* "<operation> request error", a decode failure as "<operation> parse
\* error" and a failure reported by the remote service as "<operation>
\* response error", each with the underlying cause.
C3_PhaseLabels ==
    (pc = "done" /\ received # <<>>) =>
        /\ LastReply.kind = "neterr" => Labelled(err, "request", NetCause)
        /\ (LastReply.kind # "neterr" /\ ~Decodes(op, LastReply)) =>
               Labelled(err, "parse", Unmarshal(OpTarget(op), LastReply).cause)
        /\ (Decodes(op, LastReply) /\ ReportsError(LastReply)) =>
               Labelled(err, "response", ErrorMessage(Unmarshal(OpTarget(op), LastReply).val))

C5_CodeSignalsFailure ==
    (pc = "done" /\ received # <<>> /\ Decodes(op, LastReply)
        /\ LastReply.kind = "object" /\ LastReply.obj.code # None)
    => ~IsNil(err)

\* The code field of the value an operation returned for its last reply.
ReturnedCode ==
    IF op = "ConverseAll" THEN response.items[Len(response.items)].Code
    ELSE IF response.t = "map" THEN response.m.code
    ELSE response.Code

\* C5 (amended): a decoded response whose error code is present, and whose
\* error message, per-item errors and raw body are all absent, does not
\* signal failure: the operation returns it as a success value (error nil)
\* that keeps the code.
C5_CodeAloneIsNoFailure ==
    (pc = "done" /\ received # <<>> /\ Decodes(op, LastReply)
        /\ LastReply.kind = "object" /\ LastReply.obj.code # None
        /\ ~ReportsError(LastReply))
    => (IsNil(err) /\ ReturnedCode = LastReply.obj.code)

\* QueryMessage got a response with a code and no other error field.
C5_Witness ==
    /\ pc = "done"
    /\ op = "QueryMessage"
    /\ LastReply.kind = "object"
    /\ LastReply.obj.code = Some(<<"c">>)
    /\ ~ReportsError(LastReply)
    /\ IsNil(err)
    /\ response.Code = Some(<<"c">>)

\* ---- C6
\* C6: every endpoint operation, the delete and list operations included,
\* applies the error normalization: a syntactically valid response that
\* carries an error indicator is never returned with a nil error.
C6_NormalizationEverywhere ==
    (pc = "done" /\ received # <<>> /\ ReportsError(LastReply)) => ~IsNil(err)

\* ---- C7
\* A reply that is a successfully decoded turn of ConverseAll.
IsTurn(rep) == Decodes("ConverseAll", rep) /\ ~ReportsError(rep)
IsStopTurn(rep) == IsTurn(rep) /\ rep.obj.type = Some(<<"stop">>)
IsOtherTurn(rep) == IsTurn(rep) /\ rep.obj.type # None /\ rep.obj.type # Some(<<"stop">>)

\* The replies begin with k turns whose type is not stop and then a stop turn.
ScriptEndsAt(k) ==
    /\ k + 1 <= Len(received)
    /\ \A i \in 1..k : IsOtherTurn(received[i])
    /\ IsStopTurn(received[k + 1])

\* C7: against a transport that returns finitely many turns whose type is
\* not stop and then a turn of type stop, ConverseAll returns those turns in
\* the order received, the stop turn last.
C7_ConverseAllReturnsScript ==
    (pc = "done" /\ op = "ConverseAll") =>
        \A k \in 0..Len(received) :
            ScriptEndsAt(k) =>
                /\ IsNil(err)
                /\ response.items = [i \in 1..(k + 1) |->
                                        Unmarshal("Converse", received[i]).val]

\* ---- C8
\* C8: ConverseAll issues no further converse request once a turn of type
\* stop has been received, the first turn included, so that the returned
\* sequence has exactly one stop turn, the last.
C8_NoRequestAfterStop ==
    op = "ConverseAll" =>
        /\ \A i \in 1..Len(received) : IsStopTurn(received[i]) => Len(sent) <= i
        /\ (pc = "done" /\ IsNil(err)) =>
               \A i \in 1..Len(response.items) :
                   (response.items[i].Type = Some(<<"stop">>)) <=> (i = Len(response.items))

\* ---- C9
\* C9: ConverseAll never faults: when a decoded turn has no type it still
\* returns normally.
C9_ConverseAllNeverFaults ==
    (op = "ConverseAll" /\ received # <<>> /\ IsTurn(LastReply) /\ LastReply.obj.type = None)
    => pc # "panic"

\* ---- C10
\* C10: CreateIntent_deprecated called with zero intents returns normally.
C10_ZeroIntentsReturns ==
    op = "CreateIntent_deprecated" => pc # "panic"

\* ---- C11
\* The number of times k is the key of a pair of the query string of url.
KeyCount(url, k) == Cardinality({i \in 2..Len(url) : url[i] = "=" /\ url[i - 1] = k})
Once(present) == IF present THEN 1 ELSE 0

\* C11: in the URL QueryMessage, QuerySpeechMp3 and ConverseFirst build, an
\* optional parameter left unset (context nil, messageId or threadId empty,
\* query empty for ConverseFirst) is the key of no pair, and one that was
\* supplied is the key of exactly one.
C11_OptionalParamsInUrl ==
    \A i \in 1..Len(breqs) :
        LET url == breqs[i].url
        IN /\ bop \in {"QueryMessage", "QuerySpeechMp3"} =>
                /\ KeyCount(url, "context") = Once(bargs.context # None)
                /\ KeyCount(url, "msg_id") = Once(bargs.messageId # <<>>)
                /\ KeyCount(url, "thread_id") = Once(bargs.threadId # <<>>)
           /\ bop = "ConverseFirst" =>
                /\ KeyCount(url, "context") = Once(bargs.context # None)
                /\ KeyCount(url, "q") = Once(bargs.query # <<>>)

C11_Witness ==
    /\ bop = "QueryMessage"
    /\ Len(breqs) > 0
    /\ bargs.context = None
    /\ bargs.messageId = <<>>
    /\ bargs.threadId # <<>>
    /\ KeyCount(breqs[1].url, "thread_id") = 1
    /\ KeyCount(breqs[1].url, "msg_id") = 0

\* ---- C12
\* The values the members of the object body with the key k have.
MemberValues(body, k) ==
    {body.members[i].val : i \in {j \in 1..Len(body.members) : body.members[j].key = k}}
MemberCount(body, k) == Cardinality({j \in 1..Len(body.members) : body.members[j].key = k})

\* An optional string is written as one member holding it, or as none when nil.
WritesString(body, k, p) ==
    /\ MemberCount(body, k) = Once(p # None)
    /\ p # None => MemberValues(body, k) = {JString(Deref(p))}

\* C12: the JSON body CreateEntity, UpdateEntity, CreateEntityValue and
\* UpdateIntentAttrs_deprecated build has a key for an optional field exactly
\* when the caller supplied it: a nil doc, name or metadata and an empty list
\* of values or expressions give no key, a supplied empty string gives the key
\* with the empty value.
C12_OptionalFieldsInBody ==
    \A i \in 1..Len(breqs) :
        LET body == breqs[i].body
        IN /\ bop \in {"CreateEntity", "UpdateEntity"} =>
                /\ WritesString(body, "doc", bargs.doc)
                /\ MemberCount(body, "values") = Once(bargs.values # <<>>)
           /\ bop = "CreateEntityValue" =>
                /\ WritesString(body, "metadata", bargs.metadata)
                /\ MemberCount(body, "expressions")
                       = Once(bargs.expressions \notin {None, Some(<<>>)})
           /\ bop = "UpdateIntentAttrs_deprecated" =>
                /\ WritesString(body, "name", bargs.name)
                /\ WritesString(body, "doc", bargs.doc)
                /\ WritesString(body, "metadata", bargs.metadata)

C12_Witness ==
    /\ bop = "CreateEntity"
    /\ Len(breqs) > 0
    /\ bargs.doc = Some(<<>>)
    /\ bargs.values = <<>>
    /\ MemberValues(breqs[1].body, "doc") = {JString(<<>>)}
    /\ MemberCount(breqs[1].body, "values") = 0

\* ---- C13
\* C13: an EntityValue sent through CreateEntity or UpdateEntity is written
\* without a key for a field that is absent: no "value" key when Value is nil,
\* no "expressions" key when Expressions is nil, and one key for each field
\* that is there.
C13_EntityValueOmitsAbsent ==
    \A i \in 1..Len(breqs) :
        bop \in {"CreateEntity", "UpdateEntity"} /\ bargs.values # <<>> =>
            \A items \in MemberValues(breqs[i].body, "values") :
                /\ Len(items.items) = Len(bargs.values)
                /\ \A j \in 1..Len(bargs.values) :
                    /\ MemberCount(items.items[j], "value")
                           = Once(bargs.values[j].Value # None)
                    /\ MemberCount(items.items[j], "expressions")
                           = Once(bargs.values[j].Expressions # None)

\* ---- C14
\* C14: a decoded result keeps a missing key apart from the zero value: the
\* Converse or Outcome decoded from an object without "confidence" differs
\* from the one decoded from the same object with confidence 0, and the Entity
\* decoded from an object without "closed", "exotic" or "builtin" differs from
\* the one decoded from the same object with that flag false.
C14_AbsenceNotCollapsed ==
    wire # <<>> =>
        LET w == wire[1]
        IN /\ bop = "Converse" /\ "confidence" \notin DOMAIN w =>
                decoded[1] # UnmarshalConverse(w @@ ("confidence" :> JNumber(0)))
           /\ bop = "Outcome" /\ "confidence" \notin DOMAIN w =>
                decoded[1] # UnmarshalOutcome(w @@ ("confidence" :> JNumber(0)))
           /\ bop = "Entity" =>
                \A k \in {"closed", "exotic", "builtin"} \ DOMAIN w :
                    decoded[1] # UnmarshalEntity(w @@ (k :> JBool(FALSE)))

\* ---- C15
\* The places of the token t in url.
Places(url, t) == {j \in 1..Len(url) : url[j] = t}
BaseUrl == <<Host, "/message">>

C16_makeUrlDeterministic ==
    \A i, j \in 1..Len(breqs) : breqs[i].url = breqs[j].url

\* ---- C17
\* The pairs of the query string of url start after the "?" and after each
\* "&", and run up to the next "&" or the end.
PairStarts(url) == {j + 1 : j \in Places(url, "?") \cup Places(url, "&")} \cap 1..Len(url)
PairEnd(url, s) ==
    CHOOSE e \in s..Len(url) + 1 :
        /\ e = Len(url) + 1 \/ url[e] = "&"
        /\ \A j \in s..e - 1 : url[j] # "&"
PairValue(url, s) == SubSeq(url, s + 2, PairEnd(url, s) - 1)

\* What a percent-encoded text stands for.
Unescaped(c) ==
    CASE c = "+" -> " "
      [] c = "%26" -> "&"
      [] c = "%3D" -> "="
      [] c = "%3F" -> "?"
      [] c = "%7B" -> "{"
      [] c = "%7D" -> "}"
      [] c = "%2B" -> "+"
      [] c = "%25" -> "%"
      [] OTHER -> c
QueryUnescape(t) == [i \in 1..Len(t) |-> Unescaped(t[i])]
UrlSafe(c) ==
    c \in Unreserved \cup {"+", "%26", "%3D", "%3F", "%7B", "%7D", "%2B", "%25"}

\* The number a decimal text stands for.
RECURSIVE Atoi(_)
Atoi(t) ==
    IF Len(t) = 0 THEN 0
    ELSE Atoi(SubSeq(t, 1, Len(t) - 1)) * 10
         + (CHOOSE d \in 0..9 : Digit(d) = t[Len(t)])
Stringifies(t, v) ==
    IF v.kind = "int"
    THEN /\ Len(t) > 0
         /\ \A i \in 1..Len(t) : \E d \in 0..9 : Digit(d) = t[i]
         /\ Atoi(t) = v.n
    ELSE t = v.s

\* C17: the query string makeUrl builds has exactly one key=value pair for
\* each param, as many pairs as params, and the value of the pair is the
\* percent-encoding of the param's value printed as text.
C17_OnePairPerParam ==
    \A i \in 1..Len(breqs) :
        LET url == breqs[i].url
        IN /\ Cardinality(PairStarts(url)) = Cardinality(DOMAIN bparams)
           /\ \A k \in DOMAIN bparams :
                \E s \in PairStarts(url) :
                    /\ url[s] = k
                    /\ url[s + 1] = "="
                    /\ \A j \in 1..Len(PairValue(url, s)) : UrlSafe(PairValue(url, s)[j])
                    /\ Stringifies(QueryUnescape(PairValue(url, s)), bparams[k])
                    /\ \A r \in PairStarts(url) : url[r] = k => r = s

C17_Witness ==
    /\ bop = "makeUrl"
    /\ Len(breqs) > 0
    /\ DOMAIN bparams = {"q", "n"}
    /\ bparams["q"] = StringValue(<<"a", " ", "&">>)
    /\ bparams["n"] = IntValue(12)
    /\ breqs[1].url = BaseUrl \o <<"?", "n", "=", "1", "2", "&", "q", "=", "a", "+", "%26">>

\* ---- C18
UploadOps == {"QuerySpeechMp3", "Legacy_SpeechMp3"}

\* C18: when the file cannot be read, QuerySpeechMp3 returns an error that
\* carries the cause of the I/O failure and no request is issued; a request an
\* upload issues comes after a read of the file that succeeded.
C18_ReadBeforeSend ==
    /\ op = "QuerySpeechMp3" /\ pc = "done" /\ fileRead # None /\ ~Deref(fileRead).ok =>
            /\ sent = <<>>
            /\ Labelled(err, "request", FileCause)
    /\ op \in UploadOps /\ sent # <<>> => fileRead # None /\ Deref(fileRead).ok

C18_Witness ==
    /\ op = "QuerySpeechMp3"
    /\ pc = "done"
    /\ fileRead = Some([ok |-> FALSE, data |-> <<>>])
    /\ sent = <<>>
    /\ err = Some(<<"speech", "request", "error:">> \o FileCause)

\* ---- C19
\* C19: a request an upload issues has the bytes of the file as its body and
\* the audio MIME type as its Content-Type, never application/json; every
\* other request has the Content-Type application/json.
C19_ContentTypes ==
    \A i \in 1..Len(sent) :
        IF op \in UploadOps
        THEN /\ sent[i].contentType = "audio/mpeg3"
             /\ sent[i].body = Deref(fileRead).data
        ELSE sent[i].contentType = "application/json"

C19_Witness ==
    /\ op = "QuerySpeechMp3"
    /\ Len(sent) = 1
    /\ sent[1].contentType = "audio/mpeg3"
    /\ sent[1].body = <<"ID3", "frame">>

\* ---- C20
\* The reply is a failure for operation o: of the transport, of the decoding,
\* or one the remote service reports.
Fails(o, r) == r.kind = "neterr" \/ ~Decodes(o, r) \/ ReportsError(r)

\* C20: no operation retries: an operation other than ConverseAll issues at
\* most one request in an invocation, a request is issued only once the one
\* before it was answered, and once a reply is a failure no further request
\* is issued (in ConverseAll the turn that fails is the last request).
C20_NoRetry ==
    /\ op # "ConverseAll" => Len(sent) <= 1
    /\ Len(sent) <= Len(received) + 1
    /\ \A i \in 1..Len(received) : Fails(op, received[i]) => Len(sent) <= i

C20_Witness ==
    /\ op = "ConverseAll"
    /\ pc = "done"
    /\ Len(received) = 2
    /\ ~Fails(op, received[1])
    /\ received[2].kind = "neterr"
    /\ Len(sent) = 2
    /\ err # None

\* ---- C21
\* The headers the token and the version of the client give.
AuthorizationOf(c) == <<"Bearer", " ">> \o Deref(c.Token)
AcceptOf(c) == <<"application/vnd.wit.">> \o Deref(c.Version) \o <<"+json">>

\* C21: the configuration of the client is fixed at construction: no step
\* changes the client, its headers are the ones its token and version give,
\* every request issued carries them as Authorization and Accept, and a
\* client built without a version has the default one.
C21_ClientFixed ==
    /\ [](/\ Deref(client.headerAuth) = AuthorizationOf(client)
          /\ Deref(client.headerAccept) = AcceptOf(client)
          /\ Deref(client.Version) \notin Versions => Deref(client.Version) = <<"20160516">>
          /\ \A i \in 1..Len(sent) :
                /\ sent[i].authorization = AuthorizationOf(client)
                /\ sent[i].accept = AcceptOf(client))
    /\ [][client' = client]_vars

C21_Witness ==
    /\ calls > 0
    /\ pc = "done"
    /\ client.Version = Some(<<"20141022">>)
    /\ Len(sent) > 0
    /\ sent[1].accept = <<"application/vnd.wit.", "20141022", "+json">>
    /\ sent[1].authorization = <<"Bearer", " ", "tok">>

\* ---- C22
\* C22: calls on the same client are independent under concurrency: in every
\* interleaving of two calls each returns what the operation returns when it
\* runs alone with the same arguments and the same answer of the transport,
\* and a step of one call changes nothing of the other call nor of the client.
C22_IndependentCalls ==
    /\ [](\A p \in Procs :
            procs[p].pc = "done" =>
                LET alone == ResultOf(procs[p].op, Deref(procs[p].answer))
                IN /\ procs[p].response = alone.response
                   /\ procs[p].err = alone.err
                   /\ procs[p].req = Some(RequestOf(procs[p].op)))
    /\ [][/\ client' = client
          /\ \A p, q \in Procs : p # q /\ procs'[p] # procs[p] => procs'[q] = procs[q]]_vars

C22_Witness ==
    /\ procs[1].pc = "done"
    /\ procs[2].pc = "done"
    /\ procs[1].op = "ConverseFirst"
    /\ procs[2].op = "ConverseFirst"
    /\ procs[1].err = None
    /\ procs[2].err # None

NoErrorIndicator(w) == \A k \in {"error", "errors", "body"} : ~Given(w, k)

C24_OutcomesAsReceived ==
    (bop = "QueryMessage response" /\ NoErrorIndicator(wire[1])) =>
        /\ decoded[1].err = None
        /\ decoded[1].response.MessageId = StringPtr(wire[1], "msg_id")
        /\ IF Given(wire[1], "outcomes")
           THEN LET items == wire[1]["outcomes"].items
                    outcomes == Deref(decoded[1].response.Outcomes)
                IN  /\ Len(outcomes) = Len(items)
                    /\ \A i \in 1..Len(items) :
                        /\ {outcomes[i].Intent} = {Some(v.s) : v \in MemberValues(items[i], "intent")}
                        /\ {outcomes[i].Confidence}
                           = {v.n : v \in MemberValues(items[i], "confidence")}
           ELSE decoded[1].response.Outcomes = None

C24_Witness ==
    /\ bop = "QueryMessage response"
    /\ NoErrorIndicator(wire[1])
    /\ Given(wire[1], "outcomes")
    /\ Len(wire[1]["outcomes"].items) = 2
    /\ decoded[1].err = None
    /\ Deref(decoded[1].response.Outcomes)[1].Intent = Some(<<"b">>)
    /\ Deref(decoded[1].response.Outcomes)[2].Intent = Some(<<"a">>)

\* C25: the String rendering of a record lists a field exactly when the field
\* is present, in one fixed order: for a Converse each of Error, Code, Type,
\* Message, Action and Entities is listed if and only if it is present and
\* Confidence is always listed; for an Entity Closed, Exotic and Builtin are
\* always listed.
Labels(text) == [i \in 1..(Len(text) - 1) |-> IF text[i + 1] = ":" THEN text[i] ELSE ""]
Listed(text, name) == Cardinality({i \in 1..(Len(text) - 1) : Labels(text)[i] = name})
ListedInOrder(text, names) ==
    \A i, j \in 1..(Len(text) - 1), m, n \in 1..Len(names) :
        (Labels(text)[i] = names[m] /\ Labels(text)[j] = names[n] /\ i < j) => m < n

C25_ListsPresentFields ==
    /\ bop = "Converse.String" =>
        /\ \A f \in {"Error", "Code", "Type", "Message", "Action", "Entities"} :
               Listed(decoded[1], f) = Once(bargs[f] # None)
        /\ Listed(decoded[1], "Confidence") = 1
        /\ ListedInOrder(decoded[1], <<"Error", "Code", "Type", "Message", "Action",
                                       "Entities", "Confidence">>)
    /\ bop = "Entity.String" =>
        /\ \A f \in {"Closed", "Exotic", "Builtin"} : Listed(decoded[1], f) = 1
        /\ ListedInOrder(decoded[1], <<"Error", "Code", "Id", "Name", "Doc", "Lang",
                                       "Closed", "Exotic", "Builtin", "Values">>)

\* C26: ConverseNext(session, context) does what ConverseFirst(session, "",
\* context) does: it sends one POST to /converse whose URL carries session_id
\* with the session, context exactly when the context is not nil, and no q,
\* with the context as the body, and it returns the response and the error
\* ConverseFirst returns for the same answer.
C26_NextIsFirstWithoutQuery ==
    bop = "ConverseNext call" =>
        LET first == ConverseFirst_call(bargs.sessionId, <<>>, bargs.context, wire[1])
            url == breqs[1].url
        IN  /\ Len(breqs) = 1
            /\ breqs[1].method = "POST"
            /\ SubSeq(url, 1, 2) = <<Host, "/converse">>
            /\ KeyCount(url, "q") = 0
            /\ KeyCount(url, "session_id") = 1
            /\ KeyCount(url, "context") = Once(bargs.context # None)
            /\ \A s \in PairStarts(url) :
                /\ url[s] = "session_id" => QueryUnescape(PairValue(url, s)) = bargs.sessionId
                /\ url[s] = "context" =>
                       QueryUnescape(PairValue(url, s)) = Deref(bargs.context)
            /\ breqs[1].body = Marshal(ContextValue(bargs.context))
            /\ breqs[1] \in first.reqs
            /\ decoded[1] = first.out

C26_Witness ==
    /\ bop = "ConverseNext call"
    /\ bargs.context # None
    /\ KeyCount(breqs[1].url, "context") = 1
    /\ wire[1].kind = "object"
    /\ decoded[1].err = None
    /\ decoded[1].response.Type = Some(<<"msg">>)

\* C27: when a turn of ConverseAll fails (the request, the parsing or the
\* response of the first call or of a later ConverseNext), ConverseAll stops
\* there and returns a nil sequence with the error of that turn; the turns it
\* had collected are not returned, so an error never comes with turns.
TurnResult(i) == CheckedCall("converse", OpTarget("ConverseAll"), received[i])

C27_FailedTurnDiscardsAll ==
    (op = "ConverseAll" /\ pc = "done") =>
        /\ \A i \in 1..Len(received) :
               TurnResult(i).err # None =>
                   /\ i = Len(received)
                   /\ err = TurnResult(i).err
                   /\ response = NilList
        /\ err # None => (response.isNil /\ Len(response.items) = 0)

C27_Witness ==
    /\ op = "ConverseAll"
    /\ pc = "done"
    /\ Len(responses) = 2
    /\ Len(received) = 3
    /\ TurnResult(3).err # None
    /\ err = TurnResult(3).err
    /\ response.isNil

\* C28: an operation decides its outcome from the bytes of the response body
\* alone, whatever the status code and whether or not reading the body
\* reported an error: when every reply it got decodes into its result type and
\* has no error indicator it returns the decoded value with a nil error, also
\* for a status that is not a success, and it returns what it returns for the
\* same body with status 200 read without error.
Plain(rep) == StatusReply(rep, IF rep.kind = "neterr" THEN 0 ELSE 200, FALSE)

C28_BodyAloneDecides ==
    (pc = "done" /\ Len(received) > 0) =>
        /\ (\A i \in 1..Len(received) :
                Decodes(op, received[i]) /\ ~ReportsError(received[i])) =>
               /\ err = None
               /\ op # "ConverseAll" => response = Unmarshal(OpTarget(op), LastReply).val
               /\ op = "ConverseAll" =>
                      response.items = [i \in 1..Len(received) |->
                                            Unmarshal(OpTarget(op), received[i]).val]
        /\ op \in ConcurrentOps =>
               [response |-> response, err |-> err] = ResultOf(op, Plain(LastReply))

C28_Witness ==
    /\ pc = "done"
    /\ op = "QueryMessage"
    /\ LastReply.status = 500
    /\ LastReply.kind = "object"
    /\ ~ReportsError(LastReply)
    /\ err = None
    /\ response.Payload = Some(<<"p">>)

\* C29: for every response, when HasError returns false ErrorMessage returns
\* the empty string, and so when ErrorMessage returns a text that is not empty
\* HasError returns true.
C29_NoErrorNoMessage ==
    (hasError # None /\ errorMessage # None) =>
        /\ Deref(hasError) = FALSE => Deref(errorMessage) = <<>>
        /\ Len(Deref(errorMessage)) > 0 => Deref(hasError) = TRUE

C29_Witness ==
    /\ hasError = Some(FALSE)
    /\ errorMessage = Some(<<>>)
    /\ rerr.Code # None

\* The other direction fails: an error message that is present and empty
\* makes HasError true and ErrorMessage empty.
C29_EmptyMessageWithError ==
    /\ hasError = Some(TRUE)
    /\ errorMessage = Some(<<>>)
    /\ rerr.Error = Some(<<>>)
    /\ rerr.Errors = <<>>
    /\ rerr.Body = None

\* C30: every request QuerySpeechMp3 (and SpeechMp3 of the older client) sends
\* has the parameter n once, with a decimal value of at least 1: 1 when the
\* caller passed n <= 0, and the caller's n when it is 1 or more.
C30_AtLeastOneOutcome ==
    bop \in UploadOps =>
        \A i \in 1..Len(breqs) :
            LET url == breqs[i].url IN
            /\ KeyCount(url, "n") = 1
            /\ \A s \in PairStarts(url) :
                   url[s] = "n" =>
                       LET sentN == PairValue(url, s) IN
                       /\ Len(sentN) > 0
                       /\ \A j \in 1..Len(sentN) : \E d \in 0..9 : Digit(d) = sentN[j]
                       /\ Atoi(sentN) >= 1
                       /\ Atoi(sentN) = IF bargs.n <= 0 THEN 1 ELSE bargs.n

C30_Witness ==
    /\ bop = "QuerySpeechMp3"
    /\ bargs.n = -3
    /\ Len(breqs) = 1
    /\ \E s \in PairStarts(breqs[1].url) :
           breqs[1].url[s] = "n" /\ PairValue(breqs[1].url, s) = <<"1">>

====
